---- MODULE Spec2Model ----
(***************************************************************************)
(* Model of the coordinate and geometry utilities of TaskForce-AI          *)
(* (frontend/src/utils/coordinates.js, also bundled at the end of          *)
(* frontend/src/utils/milsymbols.js) and of their callers.                 *)
(*                                                                         *)
(* Representation                                                          *)
(*  - A JavaScript string is a sequence of one-character strings.          *)
(*  - A JavaScript value returned by a function is a record with a field   *)
(*    kind: "number", "NaN", "string", "point", "null", "undefined", or    *)
(*    "throw" for an exception that leaves the function.                   *)
(*  - An angle handed to getUTMZone / getUTMZoneLetter is an integer count *)
(*    of 1/Unit degrees, so that fractional degrees are covered.           *)
(*  - The pure functions are applied by the actions of Spec: one action    *)
(*    per exported function, its arguments drawn from bounded sets.        *)
(*  - The visibility algorithms and the drawing of their results are       *)
(*    applied by the actions of SpecVisibility.                            *)
(*  - The analysis tool components and their requests to /api/elevation/   *)
(*    are the state machine SpecTools: one action per handler and per      *)
(*    continuation of an awaited fetch.                                    *)
(*  - The measure tool, the arrow tool, the marker palette and the feature *)
(*    popup are the state machine SpecDrawing.                             *)
(***************************************************************************)
EXTENDS Integers, Sequences, FiniteSets, TLC

VARIABLES
    pc,     \* "idle" (no call made yet / last call consumed) or "returned"
    op,     \* name of the function last called
    args,   \* record of the arguments of that call
    lib,    \* what the third-party calls made inside it produced
    ret,    \* the value it returned
    defs,   \* proj4's registry of projection definitions (EPSG codes)
    \* one analysis tool component (radial line of sight, point-to-point line
    \* of sight or elevation profile) and its requests:
    tool,            \* which component the behaviour follows ("none": none)
    isActive,        \* its isActive prop
    placed,          \* points placed by clicks (observer, target / path points)
    observerHeight,  \* its observerHeight state
    analysisData,    \* visibilityData / losData / profileData (Null: null)
    loading,         \* its loading state
    refs,            \* which of its layer refs hold a layer
    requests,        \* the requests it has issued, in order of issue
    leaked,          \* layers it added to the map that none of its refs holds
    \* the drawing tools of the map view and the feature popup:
    handlers,        \* the map's event handlers, in order of registration
    measure,         \* MeasureTool: its isActive prop, its refs, its timers
    arrow,           \* ArrowTool: its isActive prop, its refs, its save
    palette,         \* MapView's selectedSymbol / selectedAffiliation, markers
    popup            \* FeaturePopup: its feature prop and its state

callVars == <<pc, op, args, lib, ret, defs>>
toolVars == <<tool, isActive, placed, observerHeight, analysisData, loading, refs,
              requests, leaked>>
drawVars == <<handlers, measure, arrow, palette, popup>>
vars == <<pc, op, args, lib, ret, defs,
          tool, isActive, placed, observerHeight, analysisData, loading, refs,
          requests, leaked,
          handlers, measure, arrow, palette, popup>>

----------------------------------------------------------------------------
(* Bounds of the model *)

\* angles are counted in 1/Unit degrees
Unit == 2

\* a typed coordinate text is put together from at most MaxTokens tokens
MaxTokens == 3

\* a path handed to the distance and perimeter functions has at most
\* MaxPoints points
MaxPoints == 3

\* a ring handed to calculatePolygonArea has at most MaxRing points (three
\* vertices and the first one repeated at the end)
MaxRing == 4

----------------------------------------------------------------------------
(* JavaScript values *)

Num(n) == [kind |-> "number", val |-> n]
Str(s) == [kind |-> "string", chars |-> s]
Null == [kind |-> "null"]
Undefined == [kind |-> "undefined"]
Point(la, lo) == [kind |-> "point", lat |-> la, lon |-> lo]
NoLib == [kind |-> "none"]

----------------------------------------------------------------------------
(* getUTMZone, getUTMZoneLetter *)

\* Math.floor((lon + 180) / 6) + 1, lon in 1/Unit degrees
getUTMZone(lon) == ((lon + 180 * Unit) \div (6 * Unit)) + 1

\* const letters = 'CDEFGHJKLMNPQRSTUVWX'
letters == << "C", "D", "E", "F", "G", "H", "J", "K", "L", "M",
              "N", "P", "Q", "R", "S", "T", "U", "V", "W", "X" >>

\* s[i] of JavaScript (0-based): the character, or undefined outside the string
CharAt(s, i) == IF i >= 0 /\ i < Len(s) THEN Str(<<s[i + 1]>>) ELSE Undefined

\* lat in 1/Unit degrees
getUTMZoneLetter(lat) ==
    IF lat < -80 * Unit THEN Str(<<"A">>)
    ELSE IF lat > 84 * Unit THEN Str(<<"Z">>)
    ELSE CharAt(letters, (lat + 80 * Unit) \div (8 * Unit))

----------------------------------------------------------------------------
(* JavaScript strings *)

DigitChars == << "0", "1", "2", "3", "4", "5", "6", "7", "8", "9" >>

Min(a, b) == IF a < b THEN a ELSE b
Max(a, b) == IF a > b THEN a ELSE b

\* s.substring(a, b): both indices clamped to [0, length], swapped when a > b
Substring(s, a, b) ==
    LET ca == Max(0, Min(a, Len(s)))
        cb == Max(0, Min(b, Len(s)))
        lo == Min(ca, cb)
        hi == Max(ca, cb)
    IN  SubSeq(s, lo + 1, hi)

\* s.substring(a)
SubstringFrom(s, a) == Substring(s, a, Len(s))

\* Number.prototype.toString of a non-negative integer
RECURSIVE NatToString(_)
NatToString(n) ==
    IF n < 10 THEN <<DigitChars[n + 1]>>
    ELSE NatToString(n \div 10) \o <<DigitChars[(n % 10) + 1]>>

INVALID == << "I", "n", "v", "a", "l", "i", "d" >>

----------------------------------------------------------------------------
(* mgrs.forward([lon, lat], accuracy) of the npm package mgrs, called at   *)
(* latLonToMGRS.  The package is not part of the repository; what is       *)
(* modelled is the shape of its result: it throws outside 80S..84N, else   *)
(* returns zone number (no leading zero), band letter, two square letters, *)
(* and accuracy digits each of easting and northing.  The projected metres *)
(* and the square letters are left to the caller of LibForward to choose.  *)

\* zone number of the package: 180E belongs to zone 60; Norway and Svalbard
LibZoneNumber(lat, lon) ==
    IF lon = 180 THEN 60
    ELSE IF lat >= 56 /\ lat < 64 /\ lon >= 3 /\ lon < 12 THEN 32
    ELSE IF lat >= 72 /\ lat < 84 /\ lon >= 0 /\ lon < 9 THEN 31
    ELSE IF lat >= 72 /\ lat < 84 /\ lon >= 9 /\ lon < 21 THEN 33
    ELSE IF lat >= 72 /\ lat < 84 /\ lon >= 21 /\ lon < 33 THEN 35
    ELSE IF lat >= 72 /\ lat < 84 /\ lon >= 33 /\ lon < 42 THEN 37
    ELSE ((lon + 180) \div 6) + 1

\* band letter of the package: band X spans 72N..84N
LibLetterDesignator(lat) ==
    IF lat >= 72 THEN "X" ELSE letters[((lat + 80) \div 8) + 1]

\* the first `accuracy` digits of the metres, written with five digits
LibDigits(metres, accuracy) ==
    LET five == << DigitChars[((metres \div 10000) % 10) + 1],
                   DigitChars[((metres \div 1000) % 10) + 1],
                   DigitChars[((metres \div 100) % 10) + 1],
                   DigitChars[((metres \div 10) % 10) + 1],
                   DigitChars[(metres % 10) + 1] >>
    IN  SubSeq(five, 1, accuracy)

\* lat, lon in whole degrees; sq, e, n: square letters and metres in the square
LibForward(lat, lon, accuracy, sq, e, n) ==
    IF lat < -80 \/ lat > 84
    THEN [kind |-> "forward", threw |-> TRUE]
    ELSE [kind |-> "forward", threw |-> FALSE,
          zone |-> NatToString(LibZoneNumber(lat, lon)),
          band |-> <<LibLetterDesignator(lat)>>,
          sq |-> sq,
          easting |-> LibDigits(e, accuracy),
          northing |-> LibDigits(n, accuracy)]

\* the string mgrs.forward returns
LibRaw(fw) == fw.zone \o fw.band \o fw.sq \o fw.easting \o fw.northing

----------------------------------------------------------------------------
(* latLonToMGRS *)

\* fw: what mgrs.forward([lon, lat], precision) did
latLonToMGRS(formatted, fw) ==
    IF fw.threw THEN Str(INVALID)
    ELSE
      LET raw == LibRaw(fw)
      IN  IF ~formatted \/ Len(raw) = 0 \/ Len(raw) < 5 THEN Str(raw)
          ELSE
            LET gzd == Substring(raw, 0, 3)
                sq == Substring(raw, 3, 5)
                coords == SubstringFrom(raw, 5)
                \* half = coords.length / 2 may be x.5: substring truncates it
                half == Len(coords) \div 2
                easting == Substring(coords, 0, half)
                northing == SubstringFrom(coords, half)
            IN  Str(gzd \o <<" ">> \o sq \o <<" ">> \o easting \o <<" ">> \o northing)

----------------------------------------------------------------------------
(* Regular expressions of parseCoordinates.  Each of them is a sequence of *)
(* character classes with a repetition count, anchored at both ends; the   *)
(* matcher is the backtracking, greedy matcher of JavaScript: an item      *)
(* takes as many characters as it can and gives them back one by one.      *)

Item(cls, lo, hi) == [cls |-> cls, min |-> lo, max |-> hi]
Many == 99
NoMatch == << -1 >>

UPPER == << "A", "B", "C", "D", "E", "F", "G", "H", "I", "J", "K", "L", "M",
            "N", "O", "P", "Q", "R", "S", "T", "U", "V", "W", "X", "Y", "Z" >>
LOWER == << "a", "b", "c", "d", "e", "f", "g", "h", "i", "j", "k", "l", "m",
            "n", "o", "p", "q", "r", "s", "t", "u", "v", "w", "x", "y", "z" >>

Range(seq) == { seq[i] : i \in DOMAIN seq }
IndexOf(seq, c) == CHOOSE i \in DOMAIN seq : seq[i] = c

DIGIT == Range(DigitChars)
AZ == Range(UPPER)
CX == { UPPER[i] : i \in 3 .. 24 }
WS == { " " }

\* how many characters from position pos on lie in cls, at most cap
RECURSIVE RunLen(_, _, _, _)
RunLen(s, pos, cls, cap) ==
    IF cap = 0 \/ pos > Len(s) \/ s[pos] \notin cls THEN 0
    ELSE 1 + RunLen(s, pos + 1, cls, cap - 1)

RECURSIVE MatchFrom(_, _, _, _)
RECURSIVE TryCount(_, _, _, _, _)

\* the lengths the items i.. take when matching s from pos on, or NoMatch
MatchFrom(re, s, i, pos) ==
    IF i > Len(re)
    THEN (IF pos = Len(s) + 1 THEN <<>> ELSE NoMatch)
    ELSE TryCount(re, s, i, pos, RunLen(s, pos, re[i].cls, re[i].max))

TryCount(re, s, i, pos, n) ==
    IF n < re[i].min THEN NoMatch
    ELSE LET rest == MatchFrom(re, s, i + 1, pos + n)
         IN  IF rest # NoMatch THEN <<n>> \o rest
             ELSE TryCount(re, s, i, pos, n - 1)

Match(re, s) == MatchFrom(re, s, 1, 1)

RECURSIVE SumTo(_, _)
SumTo(lens, k) == IF k = 0 THEN 0 ELSE lens[k] + SumTo(lens, k - 1)

\* the text items from..to matched (a capture group)
Group(s, lens, from, to) ==
    SubSeq(s, SumTo(lens, from - 1) + 1, SumTo(lens, to))

\* /^[0-9]{1,2}[C-X][A-Z]{2}[0-9]+$/i
MGRS_RE == << Item(DIGIT, 1, 2), Item(CX, 1, 1), Item(AZ, 2, 2),
              Item(DIGIT, 1, Many) >>

\* /^([0-9]{1,2})([C-X])\s*([0-9]+)\s+([0-9]+)$/i
UTM_RE == << Item(DIGIT, 1, 2), Item(CX, 1, 1), Item(WS, 0, Many),
             Item(DIGIT, 1, Many), Item(WS, 1, Many), Item(DIGIT, 1, Many) >>

\* "deg" stands for the degree sign.
\* /^(-?[0-9.]+)\s*°?\s*([NS])?\s*[,\s]\s*(-?[0-9.]+)\s*°?\s*([EW])?$/i
DD_RE == << Item({"-"}, 0, 1), Item(DIGIT \cup {"."}, 1, Many),
            Item(WS, 0, Many), Item({"deg"}, 0, 1), Item(WS, 0, Many),
            Item({"N", "S"}, 0, 1), Item(WS, 0, Many),
            Item({",", " "}, 1, 1), Item(WS, 0, Many),
            Item({"-"}, 0, 1), Item(DIGIT \cup {"."}, 1, Many),
            Item(WS, 0, Many), Item({"deg"}, 0, 1), Item(WS, 0, Many),
            Item({"E", "W"}, 0, 1) >>

\* String.prototype.toUpperCase
ToUpperCase(s) ==
    [i \in DOMAIN s |->
        IF s[i] \in Range(LOWER) THEN UPPER[IndexOf(LOWER, s[i])] ELSE s[i]]

\* String.prototype.trim
RECURSIVE TrimStart(_)
TrimStart(s) == IF Len(s) > 0 /\ s[1] \in WS THEN TrimStart(Tail(s)) ELSE s
RECURSIVE TrimEnd(_)
TrimEnd(s) ==
    IF Len(s) > 0 /\ s[Len(s)] \in WS THEN TrimEnd(SubSeq(s, 1, Len(s) - 1))
    ELSE s
Trim(s) == TrimEnd(TrimStart(s))

----------------------------------------------------------------------------
(* parseInt / parseFloat.  A parsed number is NaN or a count of            *)
(* thousandths (digits after the third decimal are dropped).               *)

NaN == [nan |-> TRUE]
Milli(v) == [nan |-> FALSE, milli |-> v]

\* value of a digit string (parseInt of [0-9]+)
RECURSIVE DigitsValue(_)
DigitsValue(d) ==
    IF Len(d) = 0 THEN 0
    ELSE 10 * DigitsValue(SubSeq(d, 1, Len(d) - 1))
         + (IndexOf(DigitChars, d[Len(d)]) - 1)

\* parseFloat of a text matching -?[0-9.]+ : the longest prefix that is a
\* number (digits, at most one point, digits); NaN if it holds no digit
ParseFloat(t) ==
    LET neg == Len(t) > 0 /\ t[1] = "-"
        u == IF neg THEN Tail(t) ELSE t
        il == RunLen(u, 1, DIGIT, Many)
        hasPoint == il < Len(u) /\ u[il + 1] = "."
        fl == IF hasPoint THEN RunLen(u, il + 2, DIGIT, Many) ELSE 0
        frac == SubSeq(u, il + 2, il + 1 + Min(fl, 3))
        scale == IF Len(frac) = 0 THEN 1000 ELSE IF Len(frac) = 1 THEN 100
                 ELSE IF Len(frac) = 2 THEN 10 ELSE 1
        v == 1000 * DigitsValue(SubSeq(u, 1, il)) + scale * DigitsValue(frac)
    IN  IF il + fl = 0 THEN NaN
        ELSE Milli(IF neg THEN -v ELSE v)

\* unary minus
Negate(x) == IF x.nan THEN x ELSE Milli(-x.milli)

----------------------------------------------------------------------------
(* mgrs.toPoint(str) of the npm package mgrs and proj4(utm, wgs84, [e, n]) *)
(* of the npm package proj4, called at mgrsToLatLon and utmToLatLon.  The  *)
(* packages are not part of the repository.  Modelled: which texts toPoint *)
(* rejects, and that both place the point by the zone's central meridian   *)
(* (zone - 1) * 6 - 177: toPoint adds the offset to it as it is, proj4     *)
(* wraps the sum into -180..180.  The offset dx and the latitude inside    *)
(* the band or hemisphere depend on the metres and are chosen by the       *)
(* caller of these operators.  Degrees are counted in thousandths.         *)

CentralMeridian(zone) == (zone - 1) * 6 - 177

\* south edge of the band of a letter C..X (I and O name no band)
BandSouth(letter) == -80 + 8 * (IndexOf(letters, letter) - 1)

\* str matches MGRS_RE; o: [dx, dy] degrees from the central meridian and
\* from the south edge of the band
LibToPoint(str, o) ==
    LET lens == Match(MGRS_RE, str)
        zone == DigitsValue(Group(str, lens, 1, 1))
        letter == Group(str, lens, 2, 2)[1]
        sq == Group(str, lens, 3, 3)
        digits == Group(str, lens, 4, 4)
    IN  IF \/ letter \in { "I", "O" }
           \/ sq[1] \in { "I", "O" } \/ sq[2] \in { "I", "O" }
           \/ IndexOf(UPPER, sq[2]) > IndexOf(UPPER, "V")
           \/ Len(digits) % 2 = 1
        THEN [kind |-> "toPoint", threw |-> TRUE]
        ELSE [kind |-> "toPoint", threw |-> FALSE,
              lon |-> Milli(1000 * (CentralMeridian(zone) + o.dx)),
              lat |-> Milli(1000 * (BandSouth(letter) + o.dy))]

\* adjust_lon of proj4: into -180..180
WrapLon(lon) == ((lon + 180) % 360) - 180

\* o: [dx, dy] degrees from the central meridian and from the equator
LibProj4Inverse(zone, isNorth, o) ==
    [kind |-> "proj4", threw |-> FALSE,
     lon |-> Milli(1000 * WrapLon(CentralMeridian(zone) + o.dx)),
     lat |-> Milli(1000 * (IF isNorth THEN 10 * o.dy ELSE -10 * o.dy))]

----------------------------------------------------------------------------
(* mgrsToLatLon, utmToLatLon, parseCoordinates *)

mgrsToLatLon(mgrsStr, o) ==
    LET tp == LibToPoint(mgrsStr, o)
    IN  IF tp.threw THEN Null ELSE Point(tp.lat, tp.lon)

\* `EPSG:326${zone.toString().padStart(2, '0')}` (327 for the south): the
\* code as a number, the zone written with at least two digits
EpsgCode(zone, isNorth) ==
    (IF isNorth THEN 326 ELSE 327) * (IF zone < 100 THEN 100 ELSE 1000) + zone

\* letter >= 'N'
IsNorthLetter(letter) == IndexOf(UPPER, letter) >= IndexOf(UPPER, "N")

utmToLatLon(zone, letter, easting, northing, o) ==
    LET pj == LibProj4Inverse(zone, IsNorthLetter(letter), o)
    IN  IF pj.threw THEN Null ELSE Point(pj.lat, pj.lon)

\* the registry after utmToLatLon: the code is defined if it was not
DefsAfterUtm(zone, letter, d) == d \cup { EpsgCode(zone, IsNorthLetter(letter)) }

\* which branch parseCoordinates takes for an input
ParseBranch(input) ==
    LET trimmed == ToUpperCase(Trim(input))
    IN  IF Match(MGRS_RE, trimmed) # NoMatch THEN "mgrs"
        ELSE IF Match(UTM_RE, trimmed) # NoMatch THEN "utm"
        ELSE IF Match(DD_RE, trimmed) # NoMatch THEN "dd"
        ELSE "none"

parseCoordinates(input, o) ==
    LET trimmed == ToUpperCase(Trim(input))
        branch == ParseBranch(input)
    IN  IF branch = "mgrs" THEN mgrsToLatLon(trimmed, o)
        ELSE IF branch = "utm" THEN
            LET utmMatch == Match(UTM_RE, trimmed)
                zone == DigitsValue(Group(trimmed, utmMatch, 1, 1))
                letter == Group(trimmed, utmMatch, 2, 2)[1]
                easting == DigitsValue(Group(trimmed, utmMatch, 4, 4))
                northing == DigitsValue(Group(trimmed, utmMatch, 6, 6))
            IN  utmToLatLon(zone, letter, easting, northing, o)
        ELSE IF branch = "dd" THEN
            LET ddMatch == Match(DD_RE, trimmed)
                lat0 == ParseFloat(Group(trimmed, ddMatch, 1, 2))
                lon0 == ParseFloat(Group(trimmed, ddMatch, 10, 11))
                lat == IF Group(trimmed, ddMatch, 6, 6) = <<"S">>
                       THEN Negate(lat0) ELSE lat0
                lon == IF Group(trimmed, ddMatch, 15, 15) = <<"W">>
                       THEN Negate(lon0) ELSE lon0
            IN  Point(lat, lon)
        ELSE Null

\* the registry after parseCoordinates
DefsAfterParse(input, d) ==
    LET trimmed == ToUpperCase(Trim(input))
        utmMatch == Match(UTM_RE, trimmed)
    IN  IF ParseBranch(input) = "utm"
        THEN DefsAfterUtm(DigitsValue(Group(trimmed, utmMatch, 1, 1)),
                          Group(trimmed, utmMatch, 2, 2)[1], d)
        ELSE d

----------------------------------------------------------------------------
(* Arithmetic of the geometry functions.  A point is <<lat, lng>> in whole *)
(* degrees, both multiples of 30, so that every angle whose sine or cosine *)
(* is taken is a multiple of 15 degrees.  Sines, cosines and the haversine *)
(* term are counted in thousandths, rounded to the nearest thousandth as   *)
(* the double arithmetic rounds to the nearest double; angles returned by  *)
(* atan2 are counted in milliradians; distances in metres, areas in km2.   *)
(* A number is Num(v) or JsNaN.                                            *)

JsNaN == [kind |-> "NaN"]
Throw == [kind |-> "throw"]

\* x / d rounded to the nearest integer (d > 0)
RoundDiv(x, d) == (2 * x + d) \div (2 * d)

\* product of two numbers counted in thousandths
FMul(x, y) == RoundDiv(x * y, 1000)

Abs(x) == IF x < 0 THEN -x ELSE x

\* 1000 * sin of 0, 15, .. 90 degrees
SinTab == << 0, 259, 500, 707, 866, 966, 1000 >>

\* 1000 * sin of r degrees in the first quadrant: r a multiple of 15, or one
\* degree away from 0 or 90 (sin 1 = 0.01745, sin 89 = 0.99985)
SinQ1(r) ==
    IF r = 1 THEN 17
    ELSE IF r = 89 THEN 1000
    ELSE SinTab[(r \div 15) + 1]

\* Math.sin(x * Math.PI / 180)
SinDeg(x) ==
    LET r == x % 360
    IN  IF r <= 90 THEN SinQ1(r)
        ELSE IF r <= 180 THEN SinQ1(180 - r)
        ELSE IF r <= 270 THEN -SinQ1(r - 180)
        ELSE -SinQ1(360 - r)

\* Math.cos(x * Math.PI / 180)
CosDeg(x) == SinDeg(x + 90)

\* Math.sqrt of n >= 0, to the integer below (Newton's iteration)
RECURSIVE SqrtIter(_, _)
SqrtIter(n, r) ==
    LET r2 == (r + (n \div r)) \div 2
    IN  IF r2 >= r THEN r ELSE SqrtIter(n, r2)
ISqrt(n) == IF n = 0 THEN 0 ELSE SqrtIter(n, n)

\* Math.sqrt of a number counted in thousandths: NaN below zero
SqrtMilli(x) == IF x < 0 THEN JsNaN ELSE Num(ISqrt(1000 * x))

\* atan(z / 1000) in milliradians for 0 <= z <= 1000:
\* (pi/4) z + 0.273 z (1 - z)
AtanUnit(z) == (z * (785 + ((273 * (1000 - z)) \div 1000))) \div 1000

\* Math.atan2(y, x) in milliradians, for x >= 0 and y >= 0
AtanQ1(y, x) ==
    IF y = 0 THEN 0
    ELSE IF x = 0 THEN 1571
    ELSE IF y <= x THEN AtanUnit(RoundDiv(1000 * y, x))
    ELSE 1571 - AtanUnit(RoundDiv(1000 * x, y))

\* Math.atan2(y, x) in milliradians
Atan2(y, x) ==
    IF y >= 0 /\ x >= 0 THEN AtanQ1(y, x)
    ELSE IF y >= 0 THEN 3142 - AtanQ1(y, -x)
    ELSE IF x >= 0 THEN -AtanQ1(-y, x)
    ELSE AtanQ1(-y, -x) - 3142

\* x + y of JavaScript numbers
Add(x, y) ==
    IF x.kind = "NaN" \/ y.kind = "NaN" THEN JsNaN ELSE Num(x.val + y.val)

----------------------------------------------------------------------------
(* calculateDistance, calculatePathDistance, calculatePolygonPerimeter *)

\* const R = 6371000 // Earth radius in meters
R == 6371000

\* Mutant of calculateDistance: cos(lat1) taken twice instead of
\* cos(lat1) * cos(lat2).
calculateDistance_cosLat1Twice(lat1, lon1, lat2, lon2) ==
    LET sdLat == SinDeg((lat2 - lat1) \div 2)
        sdLon == SinDeg((lon2 - lon1) \div 2)
        a == FMul(sdLat, sdLat)
             + FMul(FMul(CosDeg(lat1), CosDeg(lat1)), FMul(sdLon, sdLon))
        sa == SqrtMilli(a)
        sb == SqrtMilli(1000 - a)
    IN  IF sa.kind = "NaN" \/ sb.kind = "NaN" THEN JsNaN
        ELSE Num((R \div 1000) * (2 * Atan2(sa.val, sb.val)))

\* Mutant of calculateDistance: the distance is offset by one metre.
calculateDistance_offByOne(lat1, lon1, lat2, lon2) ==
    LET sdLat == SinDeg((lat2 - lat1) \div 2)
        sdLon == SinDeg((lon2 - lon1) \div 2)
        a == FMul(sdLat, sdLat)
             + FMul(FMul(CosDeg(lat1), CosDeg(lat2)), FMul(sdLon, sdLon))
        sa == SqrtMilli(a)
        sb == SqrtMilli(1000 - a)
    IN  IF sa.kind = "NaN" \/ sb.kind = "NaN" THEN JsNaN
        ELSE Num((R \div 1000) * (2 * Atan2(sa.val, sb.val)) + 1)

\* haversine: dLat / 2 and dLon / 2 are whole degrees for even differences
calculateDistance(lat1, lon1, lat2, lon2) ==
    LET sdLat == SinDeg((lat2 - lat1) \div 2)
        sdLon == SinDeg((lon2 - lon1) \div 2)
        a == FMul(sdLat, sdLat)
             + FMul(FMul(CosDeg(lat1), CosDeg(lat2)), FMul(sdLon, sdLon))
        sa == SqrtMilli(a)
        sb == SqrtMilli(1000 - a)
    IN  IF sa.kind = "NaN" \/ sb.kind = "NaN" THEN JsNaN
        ELSE Num((R \div 1000) * (2 * Atan2(sa.val, sb.val)))

\* for (let i = from; i < points.length; i++) total += distance(points[i-1], points[i])
\* (i counts as in the code; the points of the model are numbered from 1)
RECURSIVE PathLoop(_, _, _)
PathLoop(points, i, total) ==
    IF i < Len(points)
    THEN PathLoop(points, i + 1,
             Add(total, calculateDistance(points[i][1], points[i][2],
                                          points[i + 1][1], points[i + 1][2])))
    ELSE total

\* Mutant of calculatePathDistance: the loop starts at i = 2.
calculatePathDistance_skipFirst(points) ==
    IF Len(points) < 2 THEN Num(0) ELSE PathLoop(points, 2, Num(0))

calculatePathDistance(points) ==
    IF Len(points) < 2 THEN Num(0) ELSE PathLoop(points, 1, Num(0))

\* for (let i = 0; i < points.length - 1; i++) perimeter += distance(points[i], points[i+1])
RECURSIVE PerimeterLoop(_, _, _)
PerimeterLoop(points, i, perimeter) ==
    IF i < Len(points) - 1
    THEN PerimeterLoop(points, i + 1,
             Add(perimeter, calculateDistance(points[i + 1][1], points[i + 1][2],
                                              points[i + 2][1], points[i + 2][2])))
    ELSE perimeter

calculatePolygonPerimeter(points) ==
    IF Len(points) < 2 THEN Num(0)
    ELSE LET open == PerimeterLoop(points, 0, Num(0))
         IN  IF Len(points) > 2
             THEN Add(open, calculateDistance(points[Len(points)][1],
                                              points[Len(points)][2],
                                              points[1][1], points[1][2]))
             ELSE open

----------------------------------------------------------------------------
(* calculatePolygonArea.  Areas are counted in units of 100 km2 (1e8 m2):  *)
(* R * R / 2 is 202.9 of these units per milliradian, and a square degree  *)
(* at the equator (111320 m * 111320 m) is 123.9 of them.                  *)

\* (lon2 - lon1) * Math.PI / 180 in milliradians
DegToMrad(d) == RoundDiv(d * 31416, 1800)

\* the multiple of 15 degrees nearest to x / n degrees
NearestGridDeg(x, n) == 15 * RoundDiv(x, 15 * n)

\* Mutant of Closed: the first point is never pushed.
Closed_noPush(points) == points

\* closed: [...points] with closed[0] pushed when first and last differ
Closed(points) ==
    IF points[1][1] # points[Len(points)][1] \/ points[1][2] # points[Len(points)][2]
    THEN Append(points, points[1])
    ELSE points

\* sum over i < closed.length - 1 of (lon2 - lon1) * (2 + sin(lat1) + sin(lat2)),
\* in millionths
RECURSIVE ExcessSum(_, _)
ExcessSum(closed, i) ==
    IF i >= Len(closed) THEN 0
    ELSE DegToMrad(closed[i + 1][2] - closed[i][2])
           * (2000 + SinDeg(closed[i][1]) + SinDeg(closed[i + 1][1]))
         + ExcessSum(closed, i + 1)

\* sum over i < closed.length - 1 of p1[1] * p2[0] - p2[1] * p1[0], square degrees
RECURSIVE ShoelaceSum(_, _)
ShoelaceSum(closed, i) ==
    IF i >= Len(closed) THEN 0
    ELSE closed[i][2] * closed[i + 1][1] - closed[i + 1][2] * closed[i][1]
         + ShoelaceSum(closed, i + 1)

\* closed.reduce((sum, p) => sum + p[0], 0)
RECURSIVE LatSum(_, _)
LatSum(closed, i) ==
    IF i > Len(closed) THEN 0 ELSE closed[i][1] + LatSum(closed, i + 1)

\* the area is above 1e12 m2
TooLarge(area) == area > 10000

\* Math.abs(area * R * R / 2) of the spherical-excess loop
SphericalArea(closed) == (RoundDiv(Abs(ExcessSum(closed, 1)), 100) * 2029) \div 100

\* closed.reduce((sum, p) => sum + p[0], 0) / (closed.length - 1), as a fraction
AvgLat(closed) == [num |-> LatSum(closed, 1), den |-> Len(closed) - 1]

\* the shoelace area scaled by 111320 * 111320 * Math.cos(latRad)
PlanarArea(closed) ==
    LET avgLat == AvgLat(closed)
    IN  (RoundDiv(Abs(ShoelaceSum(closed, 1)) * 1239, 20)
            * CosDeg(NearestGridDeg(avgLat.num, avgLat.den))) \div 1000

\* the function from line 366 on; closed[0][0] of an empty array throws
AreaBody(points) ==
    IF Len(points) = 0 THEN Throw
    ELSE
      LET closed == Closed(points)
          spherical == SphericalArea(closed)
      IN  IF TooLarge(spherical) THEN Num(PlanarArea(closed)) ELSE Num(spherical)

\* Mutant of calculatePolygonArea: the guard on the length is missing.
calculatePolygonArea_noGuard(points) == AreaBody(points)

calculatePolygonArea(points) ==
    IF Len(points) < 3 THEN Num(0) ELSE AreaBody(points)

\* the caller's array after the call: closed is a copy ([...points]) and the
\* push goes to the copy
PointsAfterArea(points) == points

\* which of the two formulas gives the result
AreaPath(points) ==
    IF Len(points) < 3 THEN "none"
    ELSE IF TooLarge(SphericalArea(Closed(points))) THEN "planar"
    ELSE "spherical"

----------------------------------------------------------------------------
(* calculateBearing.  Bearings are counted in thousandths of a degree.     *)

\* a % b of JavaScript: the sign of the result is the sign of a
JsMod(a, b) == IF a >= 0 THEN a % b ELSE -((-a) % b)

\* Math.atan2(y, x) * 180 / Math.PI
Atan2Deg(y, x) == RoundDiv(Atan2(y, x) * 180000, 3142)

\* Mutant of calculateBearing: the bearing is not brought into 0..360.
calculateBearing_raw(lat1, lon1, lat2, lon2) ==
    LET y == FMul(SinDeg(lon2 - lon1), CosDeg(lat2))
        x == FMul(CosDeg(lat1), SinDeg(lat2))
             - FMul(FMul(SinDeg(lat1), CosDeg(lat2)), CosDeg(lon2 - lon1))
    IN  Num(Atan2Deg(y, x))

calculateBearing(lat1, lon1, lat2, lon2) ==
    LET y == FMul(SinDeg(lon2 - lon1), CosDeg(lat2))
        x == FMul(CosDeg(lat1), SinDeg(lat2))
             - FMul(FMul(SinDeg(lat1), CosDeg(lat2)), CosDeg(lon2 - lon1))
        bearing == Atan2Deg(y, x)
    IN  Num(JsMod(bearing + 360000, 360000))

----------------------------------------------------------------------------
(* The calls *)

LonInputs == (-180 * Unit) .. (180 * Unit)
LatInputs == (-90 * Unit) .. (90 * Unit)

CallGetUTMZone ==
    /\ pc = "idle"
    /\ \E lon \in LonInputs :
          /\ op' = "getUTMZone"
          /\ args' = [lon |-> lon]
          /\ ret' = Num(getUTMZone(lon))
    /\ lib' = NoLib
    /\ pc' = "returned"
    /\ UNCHANGED defs
    /\ UNCHANGED toolVars
    /\ UNCHANGED drawVars

CallGetUTMZoneLetter ==
    /\ pc = "idle"
    /\ \E lat \in LatInputs :
          /\ op' = "getUTMZoneLetter"
          /\ args' = [lat |-> lat]
          /\ ret' = getUTMZoneLetter(lat)
    /\ lib' = NoLib
    /\ pc' = "returned"
    /\ UNCHANGED defs
    /\ UNCHANGED toolVars
    /\ UNCHANGED drawVars

MgrsLats == { -90, -81, -80, -1, 0, 59, 63, 72, 84, 85 }
MgrsLons == { -180, -177, -150, -126, -1, 5, 24, 179, 180 }
SquareIds == { << "M", "G" >>, << "A", "V" >> }
SquareMetres == { 0, 7, 72456, 99999 }

CallLatLonToMGRS ==
    /\ pc = "idle"
    /\ \E lat \in MgrsLats, lon \in MgrsLons, precision \in 0 .. 5,
          formatted \in BOOLEAN,
          sq \in SquareIds, e \in SquareMetres, n \in SquareMetres :
          LET fw == LibForward(lat, lon, precision, sq, e, n)
          IN  /\ op' = "latLonToMGRS"
              /\ args' = [lat |-> lat, lon |-> lon, precision |-> precision,
                          formatted |-> formatted]
              /\ lib' = fw
              /\ ret' = latLonToMGRS(formatted, fw)
    /\ pc' = "returned"
    /\ UNCHANGED defs
    /\ UNCHANGED toolVars
    /\ UNCHANGED drawVars

\* the pieces the typed coordinate texts are put together from
InputTokens == { << "3", "5", "V" >>, << "9", "9", "x" >>, << "M", "G" >>,
                 << "9", "5" >>, << ",", "2", "0", "0" >>, << " ", "7" >>,
                 << "-", "5", ".", "5" >>, << " " >>, << "S" >> }

\* the texts of at most k tokens
RECURSIVE TextsUpTo(_)
TextsUpTo(k) ==
    IF k = 0 THEN { <<>> }
    ELSE LET shorter == TextsUpTo(k - 1)
         IN  shorter \cup { t \o tok : t \in shorter, tok \in InputTokens }

\* what the library calls behind parseCoordinates may answer
Offsets == { [dx |-> -3, dy |-> 0], [dx |-> 4, dy |-> 7] }

CallParseCoordinates ==
    /\ pc = "idle"
    /\ \E input \in TextsUpTo(MaxTokens), o \in Offsets :
          /\ op' = "parseCoordinates"
          /\ args' = [input |-> input]
          /\ lib' = [kind |-> ParseBranch(input)]
          /\ ret' = parseCoordinates(input, o)
          /\ defs' = DefsAfterParse(input, defs)
    /\ pc' = "returned"
    /\ UNCHANGED toolVars
    /\ UNCHANGED drawVars

GeoLats == { -90, -60, -30, 0, 30, 60, 90 }
GeoLons == { -180, -120, -60, 0, 30, 60, 180 }

CallCalculateDistance ==
    /\ pc = "idle"
    /\ \E lat1 \in GeoLats, lon1 \in GeoLons, lat2 \in GeoLats, lon2 \in GeoLons :
          /\ op' = "calculateDistance"
          /\ args' = [p1 |-> <<lat1, lon1>>, p2 |-> <<lat2, lon2>>]
          /\ ret' = calculateDistance(lat1, lon1, lat2, lon2)
          \* the same call with the arguments exchanged
          /\ lib' = [kind |-> "swapped",
                     ret |-> calculateDistance(lat2, lon2, lat1, lon1)]
    /\ pc' = "returned"
    /\ UNCHANGED defs
    /\ UNCHANGED toolVars
    /\ UNCHANGED drawVars

\* the vertices paths and rings are made of
PathPoints == { <<0, 0>>, <<0, 60>>, <<60, 0>>, <<60, 60>>, <<-30, 180>>,
                <<90, -120>> }

\* the point sequences of at most k points
RECURSIVE PointSeqs(_)
PointSeqs(k) ==
    IF k = 0 THEN { <<>> }
    ELSE LET shorter == PointSeqs(k - 1)
         IN  shorter \cup { Append(q, pt) : q \in shorter, pt \in PathPoints }

CallCalculatePathDistance ==
    /\ pc = "idle"
    /\ \E points \in PointSeqs(MaxPoints) :
          /\ op' = "calculatePathDistance"
          /\ args' = [points |-> points]
          /\ ret' = calculatePathDistance(points)
    /\ lib' = NoLib
    /\ pc' = "returned"
    /\ UNCHANGED defs
    /\ UNCHANGED toolVars
    /\ UNCHANGED drawVars

\* the vertices of the rings whose area is asked for: a ring of a degree
\* across (below 1e12 m2) and rings of 60 degrees (above)
RingPoints == { <<0, 0>>, <<0, 1>>, <<15, 0>>, <<0, 60>>, <<60, 0>> }

\* the rings of at most k points
RECURSIVE RingSeqs(_)
RingSeqs(k) ==
    IF k = 0 THEN { <<>> }
    ELSE LET shorter == RingSeqs(k - 1)
         IN  shorter \cup { Append(q, pt) : q \in shorter, pt \in RingPoints }

CallCalculatePolygonArea ==
    /\ pc = "idle"
    /\ \E points \in RingSeqs(MaxRing) :
          /\ op' = "calculatePolygonArea"
          /\ args' = [points |-> points]
          /\ ret' = calculatePolygonArea(points)
          \* what the call went through, and the same call with the first
          \* point written once more at the end
          /\ lib' = [kind |-> "area",
                     path |-> AreaPath(points),
                     avgLat |-> IF Len(points) < 3 THEN Null
                                ELSE AvgLat(Closed(points)),
                     after |-> PointsAfterArea(points),
                     closedRet |-> IF Len(points) = 0 THEN Num(0)
                                   ELSE calculatePolygonArea(
                                            Append(points, points[1]))]
    /\ pc' = "returned"
    /\ UNCHANGED defs
    /\ UNCHANGED toolVars
    /\ UNCHANGED drawVars

CallCalculatePolygonPerimeter ==
    /\ pc = "idle"
    /\ \E points \in PointSeqs(MaxPoints) :
          /\ op' = "calculatePolygonPerimeter"
          /\ args' = [points |-> points]
          /\ ret' = calculatePolygonPerimeter(points)
    /\ lib' = NoLib
    /\ pc' = "returned"
    /\ UNCHANGED defs
    /\ UNCHANGED toolVars
    /\ UNCHANGED drawVars

BearingLats == { -90, -30, 0, 30, 90 }
BearingLons == { -180, -60, 0, 60, 180 }

\* the pairs of points bearings are asked for: the grid, and one degree north
\* and one degree east of (0, 0)
BearingPairs ==
    { << <<lat1, lon1>>, <<lat2, lon2>> >> :
          lat1 \in BearingLats, lon1 \in BearingLons,
          lat2 \in BearingLats, lon2 \in BearingLons }
    \cup { << <<0, 0>>, <<1, 0>> >>, << <<0, 0>>, <<0, 1>> >> }

CallCalculateBearing ==
    /\ pc = "idle"
    /\ \E pair \in BearingPairs :
          /\ op' = "calculateBearing"
          /\ args' = [p1 |-> pair[1], p2 |-> pair[2]]
          /\ ret' = calculateBearing(pair[1][1], pair[1][2], pair[2][1], pair[2][2])
    /\ lib' = NoLib
    /\ pc' = "returned"
    /\ UNCHANGED defs
    /\ UNCHANGED toolVars
    /\ UNCHANGED drawVars

\* the caller consumes the result; the next call is independent of it
Return ==
    /\ pc = "returned"
    /\ pc' = "idle"
    /\ op' = "none"
    /\ args' = [none |-> TRUE]
    /\ lib' = NoLib
    /\ ret' = Undefined
    /\ UNCHANGED defs
    /\ UNCHANGED toolVars
    /\ UNCHANGED drawVars

\* proj4.defs('EPSG:32634', ...), proj4.defs('EPSG:32635', ...) at module load
InitCalls ==
    /\ pc = "idle"
    /\ op = "none"
    /\ args = [none |-> TRUE]
    /\ lib = NoLib
    /\ ret = Undefined
    /\ defs = { 32634, 32635 }

\* a tool component as mounted: useState(null), useState(false),
\* useState(2.0), useRef(null), not active
ToolMounted ==
    /\ isActive = FALSE
    /\ placed = 0
    /\ observerHeight = 2
    /\ analysisData = Null
    /\ loading = FALSE
    /\ refs = {}
    /\ requests = <<>>
    /\ leaked = 0

\* the handlers of the map view's components, by component and function
COORDINATES == "CoordinateDisplay.mousemove"
HANDLE_CLICK == "MeasureTool.handleClick"
HANDLE_MOUSE_MOVE == "MeasureTool.handleMouseMove"
HANDLE_SECOND_CLICK == "MeasureTool.handleSecondClick"

\* MeasureTool as mounted: useRef(null), useRef([]); pointsRef and markersRef
\* are kept by their lengths; timers: the pending reset timers; thrown: the
\* functions that have ended with a TypeError
MeasureMounted ==
    [isActive |-> FALSE, measureLayerRef |-> "null", pointsRef |-> 0,
     markersRef |-> 0, lineRef |-> "null", timers |-> 0, thrown |-> {}]

\* ArrowTool as mounted: useRef([]), useRef(null); pointsRef is kept by its
\* length, the layer group by what has been added to it (Null: no group);
\* saving: the calls of createFeature awaited; completed: how the handling of
\* the last second click ended ("none": no second click since the last
\* click or deactivation)
ArrowMounted ==
    [isActive |-> FALSE, pointsRef |-> 0, arrowLayerRef |-> Null,
     saving |-> 0, completed |-> "none"]

\* MapView: useState(null), useState('F'); placed: the marker handed to
\* onMarkerPlaced last
PaletteMounted ==
    [selectedSymbol |-> Null, selectedAffiliation |-> "F", placed |-> Null]

\* no FeaturePopup is open.  feature: its prop; borderStyle: its state;
\* center: what its render computed; touched: the border-style control was
\* used since the feature was opened or saved last, as of the last save;
\* saved: handleSave has run; stored: the feature's dashArray before that
PopupClosed ==
    [feature |-> Null, borderStyle |-> "solid", center |-> Null,
     touched |-> FALSE, touchedAtSave |-> FALSE, saved |-> FALSE,
     stored |-> Null]

\* the map view as mounted: CoordinateDisplay has registered its handlers
\* (useMapEvents)
DrawingMounted ==
    /\ handlers = << COORDINATES >>
    /\ measure = MeasureMounted
    /\ arrow = ArrowMounted
    /\ palette = PaletteMounted
    /\ popup = PopupClosed

Init ==
    /\ InitCalls
    /\ tool = "none"
    /\ ToolMounted
    /\ DrawingMounted

Next ==
    \/ CallGetUTMZone
    \/ CallGetUTMZoneLetter
    \/ CallLatLonToMGRS
    \/ CallParseCoordinates
    \/ CallCalculateDistance
    \/ CallCalculatePathDistance
    \/ CallCalculatePolygonArea
    \/ CallCalculatePolygonPerimeter
    \/ CallCalculateBearing
    \/ Return

Spec == Init /\ [][Next]_vars

----------------------------------------------------------------------------
(* The visibility engine behind /api/elevation/: point-to-point line of    *)
(* sight and the radial raytrace.  The server is not part of the sources   *)
(* at hand; its two algorithms follow section 4.3 of the specification.    *)
(* Elevations are whole metres; a comparison of a terrain elevation with   *)
(* an interpolated one, or of two elevation angles, is made exactly, by    *)
(* cross-multiplication.                                                    *)

\* the terrain elevations the sampler answers with
Elevs == { 0, 1, 2 }

\* the observer's eye heights (observer_height)
EyeHeights == { 0, 1 }

\* a line-of-sight profile has at most MaxSamples samples, both ends included
MaxSamples == 5

\* the distance between two neighbouring samples of a profile, in metres
SampleSpacing == 10

\* the elevation of the sightline at sample i, times (number of samples - 1):
\* linear from observer elevation + eye height to the target elevation
SightlineTimes(elev, eyeHeight, i) ==
    LET eye == elev[1] + eyeHeight
    IN  eye * (Len(elev) - 1) + (elev[Len(elev)] - eye) * (i - 1)

\* Mutant of Obstructs: a tie obstructs.
Obstructs_tie(elev, eyeHeight, i) ==
    elev[i] * (Len(elev) - 1) >= SightlineTimes(elev, eyeHeight, i)

\* the terrain at sample i strictly exceeds the sightline
Obstructs(elev, eyeHeight, i) ==
    elev[i] * (Len(elev) - 1) > SightlineTimes(elev, eyeHeight, i)

\* the interior samples in distance order from i on: the first that
\* obstructs, 0 when none does
RECURSIVE FirstObstruction(_, _, _)
FirstObstruction(elev, eyeHeight, i) ==
    IF i >= Len(elev) THEN 0
    ELSE IF Obstructs(elev, eyeHeight, i) THEN i
    ELSE FirstObstruction(elev, eyeHeight, i + 1)

\* the answer to {observer, target, observer_height, samples}
lineOfSight(elev, eyeHeight) ==
    LET k == FirstObstruction(elev, eyeHeight, 2)
    IN  [visible |-> k = 0,
         obstruction |-> IF k = 0 THEN Null
                         ELSE [distance |-> (k - 1) * SampleSpacing,
                               elevation |-> elev[k]],
         profile |-> [i \in 1 .. Len(elev) |->
                         [distance |-> (i - 1) * SampleSpacing,
                          elevation |-> elev[i]]],
         observer_elevation |-> elev[1],
         target_elevation |-> elev[Len(elev)],
         total_distance |-> (Len(elev) - 1) * SampleSpacing]

\* const RADIUS = 1000 // 1km radius
RADIUS == 1000

\* the samples of one ray (5 by default)
RaySamples == 5

\* the distance of sample j of a ray
RayDistance(j) == (j * RADIUS) \div RaySamples

\* sample j lies at an elevation angle not below that of sample m, seen from
\* the eye: (e_j - eye) / d_j >= (e_m - eye) / d_m
AngleNotBelow(eye, elevs, j, m) ==
    (elevs[j] - eye) * m >= (elevs[m] - eye) * j

\* one ray outward from sample j; maxAt is the sample that holds the running
\* maximum angle (0 before the first sample), flags the visibility so far
RECURSIVE TraceLoop(_, _, _, _, _)
TraceLoop(eye, elevs, j, maxAt, flags) ==
    IF j > Len(elevs) THEN flags
    ELSE IF maxAt = 0 \/ AngleNotBelow(eye, elevs, j, maxAt)
         THEN TraceLoop(eye, elevs, j + 1, j, Append(flags, TRUE))
         ELSE TraceLoop(eye, elevs, j + 1, maxAt, Append(flags, FALSE))

\* the first blocked sample of a ray, 0 when none is blocked
RECURSIVE FirstBlocked(_, _)
FirstBlocked(flags, j) ==
    IF j > Len(flags) THEN 0
    ELSE IF ~flags[j] THEN j
    ELSE FirstBlocked(flags, j + 1)

\* one entry of visibility_map: {bearing, points, first_obstruction}
TraceRay(bearing, eye, elevs) ==
    LET flags == TraceLoop(eye, elevs, 1, 0, <<>>)
        k == FirstBlocked(flags, 1)
    IN  [bearing |-> bearing,
         points |-> [j \in 1 .. Len(elevs) |->
                        [distance |-> RayDistance(j), visible |-> flags[j]]],
         first_obstruction |-> IF k = 0 THEN Null ELSE Num(RayDistance(k))]

\* the answer to {observer, radius, observer_height}: one ray per bearing
\* i * (360 / R), R the number of rays
raytrace(observerElevation, eyeHeight, terrain) ==
    [visibility_map |->
         [i \in 1 .. Len(terrain) |->
             TraceRay(((i - 1) * 360) \div Len(terrain),
                      observerElevation + eyeHeight, terrain[i])],
     observer_elevation |-> observerElevation]

----------------------------------------------------------------------------
(* visualizeRaytrace of the radial line-of-sight tool *)

\* x || fallback for a distance x: null, undefined and 0 are falsy
OrElse(x, fallback) ==
    IF x.kind = "number" /\ x.val # 0 THEN x.val ELSE fallback

\* Mutant of Sector: the threshold is met by an average equal to it.
Sector_atLeast(map, rayIdx) ==
    LET numRays == Len(map)
        next == ((rayIdx + 1) % numRays)
        obstructionDist == OrElse(map[rayIdx + 1].first_obstruction, RADIUS)
        nextObstructionDist == OrElse(map[next + 1].first_obstruction, RADIUS)
    IN  [from |-> rayIdx, to |-> next,
         isVisible |-> obstructionDist + nextObstructionDist >= RADIUS]

\* the pie slice between ray rayIdx and the next ray (rayIdx counts from 0 as
\* in the code): (obstructionDist + nextObstructionDist) / 2 > RADIUS * 0.5
Sector(map, rayIdx) ==
    LET numRays == Len(map)
        next == ((rayIdx + 1) % numRays)
        obstructionDist == OrElse(map[rayIdx + 1].first_obstruction, RADIUS)
        nextObstructionDist == OrElse(map[next + 1].first_obstruction, RADIUS)
    IN  [from |-> rayIdx, to |-> next,
         isVisible |-> obstructionDist + nextObstructionDist > RADIUS]

\* for (const point of ray.points): the samples that get an obstruction
\* marker, from sample j on
RECURSIVE RayMarkers(_, _, _)
RayMarkers(points, j, foundObstruction) ==
    IF j > Len(points) THEN {}
    ELSE IF ~points[j].visible /\ ~foundObstruction
         THEN { j } \cup RayMarkers(points, j + 1, TRUE)
         ELSE RayMarkers(points, j + 1, foundObstruction)

\* Mutant of DrawRay: every blocked sample gets a marker.
DrawRay_everyBlocked(ray) ==
    LET markers == { j \in 1 .. Len(ray.points) : ~ray.points[j].visible }
    IN  [points |-> Len(ray.points) + 1,
         markers |-> markers,
         dashed |-> markers # {}]

\* the polyline of one ray: the observer and the samples, the markers, and
\* the dash style of a ray with an obstruction
DrawRay(ray) ==
    LET markers == RayMarkers(ray.points, 1, FALSE)
    IN  [points |-> Len(ray.points) + 1,
         markers |-> markers,
         dashed |-> markers # {}]

\* what visualizeRaytrace adds to the visibility layer; nothing when the
\* layer group or the observer of its closure is missing
visualizeRaytrace(data, hasLayer, hasObserver) ==
    IF ~hasLayer \/ ~hasObserver THEN [drawn |-> FALSE]
    ELSE [drawn |-> TRUE,
          sectors |-> [i \in 1 .. Len(data.visibility_map) |->
                          Sector(data.visibility_map, i - 1)],
          rays |-> [i \in 1 .. Len(data.visibility_map) |->
                       DrawRay(data.visibility_map[i])]]

----------------------------------------------------------------------------
(* The calls of the visibility functions *)

\* the elevation profiles of k samples
RECURSIVE ElevSeqs(_)
ElevSeqs(k) ==
    IF k = 0 THEN { <<>> }
    ELSE { Append(q, e) : q \in ElevSeqs(k - 1), e \in Elevs }

CallLineOfSight ==
    /\ pc = "idle"
    /\ \E n \in 2 .. MaxSamples, eyeHeight \in EyeHeights :
          \E elev \in ElevSeqs(n) :
              /\ op' = "lineOfSight"
              /\ args' = [elev |-> elev, observer_height |-> eyeHeight]
              /\ ret' = lineOfSight(elev, eyeHeight)
    /\ lib' = NoLib
    /\ pc' = "returned"
    /\ UNCHANGED defs
    /\ UNCHANGED toolVars
    /\ UNCHANGED drawVars

\* one ray is traced and drawn
CallTraceRay ==
    /\ pc = "idle"
    /\ \E observerElevation \in Elevs, eyeHeight \in EyeHeights :
          \E elevs \in ElevSeqs(RaySamples) :
              /\ op' = "traceRay"
              /\ args' = [eye |-> observerElevation + eyeHeight, elevs |-> elevs]
              /\ ret' = TraceRay(0, observerElevation + eyeHeight, elevs)
              /\ lib' = [kind |-> "drawn",
                         ray |-> DrawRay(TraceRay(0, observerElevation + eyeHeight,
                                                  elevs))]
    /\ pc' = "returned"
    /\ UNCHANGED defs
    /\ UNCHANGED toolVars
    /\ UNCHANGED drawVars

\* a visibility map has at most MaxRays rays
MaxRays == 3

\* the terrain under one ray: flat, and a ridge at the first, second, third
\* or fourth sample (first obstruction at 400, 600, 800, 1000 metres)
RayTerrains == { <<0, 0, 0, 0, 0>>, <<2, 0, 0, 0, 0>>, <<0, 2, 0, 0, 0>>,
                 <<0, 0, 2, 0, 0>>, <<0, 0, 0, 2, 0>> }

\* the terrains of k rays
RECURSIVE Terrains(_)
Terrains(k) ==
    IF k = 0 THEN { <<>> }
    ELSE { Append(q, t) : q \in Terrains(k - 1), t \in RayTerrains }

CallVisualizeRaytrace ==
    /\ pc = "idle"
    /\ \E numRays \in 1 .. MaxRays, hasLayer \in BOOLEAN, hasObserver \in BOOLEAN :
          \E terrain \in Terrains(numRays) :
              LET data == raytrace(0, 1, terrain)
              IN  /\ op' = "visualizeRaytrace"
                  /\ args' = [data |-> data, hasLayer |-> hasLayer,
                              hasObserver |-> hasObserver]
                  /\ ret' = visualizeRaytrace(data, hasLayer, hasObserver)
    /\ lib' = NoLib
    /\ pc' = "returned"
    /\ UNCHANGED defs
    /\ UNCHANGED toolVars
    /\ UNCHANGED drawVars

NextVisibility ==
    \/ CallLineOfSight
    \/ CallTraceRay
    \/ CallVisualizeRaytrace
    \/ Return

SpecVisibility == Init /\ [][NextVisibility]_vars

----------------------------------------------------------------------------
(* The analysis tools and their requests.  A behaviour of SpecTools        *)
(* follows one component: "raytrace" (radial line of sight), "los"         *)
(* (point-to-point line of sight) or "profile" (elevation profile).  A     *)
(* step is one handler, or one continuation of an async function up to its *)
(* next await; the effect that React re-runs after a handler changed one   *)
(* of its dependencies is part of the handler's step.                      *)

\* a component issues at most MaxRequests requests in a behaviour
MaxRequests == 2

\* the elevation lookups the server makes for one request
Lookups == 2

\* a component loses at most MaxLeaked layers in a behaviour
MaxLeaked == 3

\* what the eye-height input may be set to
Heights == { 2, 3 }

\* how one lookup of the ElevationSampler ends
LookupOutcomes == { "elevation", "failure", "timeout" }

\* the server's work on a request, lookup i onward: the first lookup that
\* fails or times out fails the request as a whole
RECURSIVE ServeLoop(_, _)
ServeLoop(outcomes, i) ==
    IF i > Len(outcomes) THEN [ok |-> TRUE, samples |-> Len(outcomes)]
    ELSE IF outcomes[i] # "elevation" THEN [ok |-> FALSE, samples |-> 0]
    ELSE ServeLoop(outcomes, i + 1)

\* the response to a request whose lookups end as in outcomes
Serve(outcomes) == ServeLoop(outcomes, 1)

\* the ways the lookups of one request may end
LookupRuns == [1 .. Lookups -> LookupOutcomes]

\* a request as issued: phase "sent" (fetch pending), "reading" (response
\* received, body awaited) or "done"; observer: the observer state captured
\* by the closure that issued it is set; height: observer_height of its body;
\* timer: the abort timer ("none", "armed", "cleared", "fired"); entered:
\* the eye height shown in the input when it was issued; and, for the
\* record: whether a lookup of the server failed or timed out, whether the
\* tool was cleaned up while the request was under way, how the request
\* ended, which alert the user got and whether console.error was called
NewRequest(hasObserver, height, timer) ==
    [phase |-> "sent", ok |-> FALSE, samples |-> 0,
     observer |-> hasObserver, height |-> height, timer |-> timer,
     entered |-> height,
     lookupFailed |-> FALSE, abandoned |-> FALSE,
     outcome |-> "pending", alert |-> "none", logged |-> FALSE]

\* a lookup of the run failed or timed out
SomeLookupFailed(outcomes) ==
    \E i \in DOMAIN outcomes : outcomes[i] # "elevation"

\* the requests that are not done
Pending == { id \in DOMAIN requests : requests[id].phase # "done" }

\* a request ended: its record as kept
Done(r, outcome, alert, logged) ==
    [r EXCEPT !.phase = "done", !.outcome = outcome, !.alert = alert,
              !.logged = logged]

\* the effect body of an active tool, layerRef.current = L.layerGroup()
\* .addTo(map): the layer group the ref held before stays on the map, and
\* with it what was added to it; the layers lost after this run
LeakedAfterEffect(held, n) == IF "layer" \in held THEN n + 1 ELSE n

\* cleanup(): the requests under way are not touched; they are marked as
\* abandoned for the record
Abandon(reqs) ==
    [id \in DOMAIN reqs |->
        IF reqs[id].phase # "done" THEN [reqs[id] EXCEPT !.abandoned = TRUE]
        ELSE reqs[id]]

\* Mutant of DataAfterResponse: a response that is not OK clears the data.
DataAfterResponse_clear(ok, body, current) == IF ok THEN body ELSE Null

\* if (response.ok) { const data = await response.json(); setData(data) }:
\* the analysis data after the response has been handled
DataAfterResponse(ok, body, current) == IF ok THEN body ELSE current

----------------------------------------------------------------------------
(* The radial line-of-sight tool *)

\* isActive becomes true: the effect creates the layer group and registers
\* the click handler
RaytraceActivate ==
    /\ tool = "raytrace" /\ ~isActive
    /\ isActive' = TRUE
    /\ refs' = refs \cup { "layer" }
    /\ UNCHANGED <<tool, placed, observerHeight, analysisData, loading, requests>>
    /\ leaked' = LeakedAfterEffect(refs, leaked)
    /\ leaked' <= MaxLeaked
    /\ UNCHANGED callVars
    /\ UNCHANGED drawVars

\* isActive becomes false: the effect calls cleanup()
RaytraceDeactivate ==
    /\ tool = "raytrace" /\ isActive
    /\ isActive' = FALSE
    /\ refs' = {}
    /\ placed' = 0
    /\ analysisData' = Null
    /\ requests' = Abandon(requests)
    /\ UNCHANGED <<tool, observerHeight, loading>>
    /\ UNCHANGED leaked
    /\ UNCHANGED callVars
    /\ UNCHANGED drawVars

\* handleClick with no observer yet: observer, marker and circle are set and
\* performRaytrace runs up to its fetch
RaytraceClick ==
    /\ tool = "raytrace" /\ isActive /\ placed = 0
    /\ Len(requests) < MaxRequests
    /\ placed' = 1
    /\ refs' = refs \cup { "observerMarker", "circle", "layer" }
    /\ loading' = TRUE
    /\ requests' = Append(requests, NewRequest(FALSE, observerHeight, "armed"))
    /\ UNCHANGED <<tool, isActive, observerHeight, analysisData>>
    /\ leaked' = LeakedAfterEffect(refs, leaked)
    /\ leaked' <= MaxLeaked
    /\ UNCHANGED callVars
    /\ UNCHANGED drawVars

\* onChange of the eye-height input (shown while isActive && !visibilityData):
\* setObserverHeight, and performRaytrace(observer) when an observer is set
RaytraceChangeHeight ==
    /\ tool = "raytrace" /\ isActive /\ analysisData = Null
    /\ placed = 0 \/ Len(requests) < MaxRequests
    /\ \E newHeight \in Heights : observerHeight' = newHeight
    /\ IF placed # 0
       THEN /\ loading' = TRUE
            /\ requests' = Append(requests,
                   [NewRequest(TRUE, observerHeight, "armed")
                       EXCEPT !.entered = observerHeight'])
       ELSE UNCHANGED <<loading, requests>>
    /\ UNCHANGED <<tool, isActive, placed, analysisData, refs>>
    /\ leaked' = IF observerHeight' # observerHeight
                  THEN LeakedAfterEffect(refs, leaked) ELSE leaked
    /\ leaked' <= MaxLeaked
    /\ UNCHANGED callVars
    /\ UNCHANGED drawVars

\* fetch resolves with the server's response: clearTimeout, and the body is
\* awaited (response.json() or response.text())
RaytraceResponse(id) ==
    /\ tool = "raytrace" /\ requests[id].phase = "sent"
    /\ \E outcomes \in LookupRuns :
          LET response == Serve(outcomes)
          IN  requests' = [requests EXCEPT ![id] =
                              [@ EXCEPT !.phase = "reading", !.ok = response.ok,
                                        !.samples = response.samples,
                                        !.lookupFailed = SomeLookupFailed(outcomes),
                                        !.timer = "cleared"]]
    /\ UNCHANGED <<tool, isActive, placed, observerHeight, analysisData, loading, refs>>
    /\ UNCHANGED leaked
    /\ UNCHANGED callVars
    /\ UNCHANGED drawVars

\* the 30 s timer fires while fetch is pending: controller.abort(), fetch
\* rejects with an AbortError, the catch alerts the timeout
RaytraceTimeout(id) ==
    /\ tool = "raytrace" /\ requests[id].phase = "sent"
    /\ requests[id].timer = "armed"
    /\ requests' = [requests EXCEPT ![id] =
                       Done([@ EXCEPT !.timer = "fired"], "timeout", "timed out", TRUE)]
    /\ loading' = FALSE
    /\ UNCHANGED <<tool, isActive, placed, observerHeight, analysisData, refs>>
    /\ UNCHANGED leaked
    /\ UNCHANGED callVars
    /\ UNCHANGED drawVars

\* fetch, or the reading of the body, rejects for another reason (network):
\* the catch alerts the error
RaytraceError(id) ==
    /\ tool = "raytrace" /\ requests[id].phase \in { "sent", "reading" }
    /\ requests' = [requests EXCEPT ![id] = Done(@, "error", "error", TRUE)]
    /\ loading' = FALSE
    /\ UNCHANGED <<tool, isActive, placed, observerHeight, analysisData, refs>>
    /\ UNCHANGED leaked
    /\ UNCHANGED callVars
    /\ UNCHANGED drawVars

\* the body has arrived: an OK response is stored and handed to
\* visualizeRaytrace (which draws when layerRef.current and the observer of
\* its closure are set), another one is alerted
RaytraceBody(id) ==
    /\ tool = "raytrace" /\ requests[id].phase = "reading"
    /\ LET r == requests[id]
       IN  /\ analysisData' = DataAfterResponse(r.ok,
                                  [req |-> id, samples |-> r.samples], analysisData)
           /\ refs' = IF r.ok /\ "layer" \in refs /\ r.observer
                      THEN refs \cup { "visibility" }
                      ELSE refs
           /\ requests' = [requests EXCEPT ![id] =
                              IF r.ok THEN Done(@, "shown", "none", FALSE)
                              ELSE Done(@, "failed", "failed", TRUE)]
    /\ loading' = FALSE
    /\ UNCHANGED <<tool, isActive, placed, observerHeight>>
    /\ UNCHANGED leaked
    /\ UNCHANGED callVars
    /\ UNCHANGED drawVars

\* handleReset (New Analysis, shown while visibilityData is set): cleanup()
\* and a new layer group; when the tool is not active, the effect that
\* follows the loss of the observer calls cleanup() once more
RaytraceReset ==
    /\ tool = "raytrace" /\ analysisData # Null
    /\ refs' = IF ~isActive /\ placed # 0 THEN {} ELSE { "layer" }
    /\ placed' = 0
    /\ analysisData' = Null
    /\ requests' = Abandon(requests)
    /\ UNCHANGED <<tool, isActive, observerHeight, loading>>
    /\ leaked' = IF isActive /\ placed # 0 THEN leaked + 1 ELSE leaked
    /\ leaked' <= MaxLeaked
    /\ UNCHANGED callVars
    /\ UNCHANGED drawVars

----------------------------------------------------------------------------
(* The point-to-point line-of-sight tool *)

LosActivate ==
    /\ tool = "los" /\ ~isActive
    /\ isActive' = TRUE
    /\ refs' = refs \cup { "layer" }
    /\ UNCHANGED <<tool, placed, observerHeight, analysisData, loading, requests>>
    /\ leaked' = LeakedAfterEffect(refs, leaked)
    /\ leaked' <= MaxLeaked
    /\ UNCHANGED callVars
    /\ UNCHANGED drawVars

\* isActive becomes false: the effect calls cleanup()
LosDeactivate ==
    /\ tool = "los" /\ isActive
    /\ isActive' = FALSE
    /\ refs' = {}
    /\ placed' = 0
    /\ analysisData' = Null
    /\ requests' = Abandon(requests)
    /\ UNCHANGED <<tool, observerHeight, loading>>
    /\ UNCHANGED leaked
    /\ UNCHANGED callVars
    /\ UNCHANGED drawVars

\* handleClick with no observer yet
LosClickObserver ==
    /\ tool = "los" /\ isActive /\ placed = 0
    /\ placed' = 1
    /\ refs' = refs \cup { "observerMarker", "layer" }
    /\ UNCHANGED <<tool, isActive, observerHeight, analysisData, loading, requests>>
    /\ leaked' = LeakedAfterEffect(refs, leaked)
    /\ leaked' <= MaxLeaked
    /\ UNCHANGED callVars
    /\ UNCHANGED drawVars

\* handleClick with an observer and no target yet: the target is set and
\* checkLineOfSight runs up to its fetch (no timer, no abort signal)
LosClickTarget ==
    /\ tool = "los" /\ isActive /\ placed = 1
    /\ Len(requests) < MaxRequests
    /\ placed' = 2
    /\ refs' = refs \cup { "targetMarker", "layer" }
    /\ loading' = TRUE
    /\ requests' = Append(requests, NewRequest(TRUE, observerHeight, "none"))
    /\ UNCHANGED <<tool, isActive, observerHeight, analysisData>>
    /\ leaked' = LeakedAfterEffect(refs, leaked)
    /\ leaked' <= MaxLeaked
    /\ UNCHANGED callVars
    /\ UNCHANGED drawVars

\* onChange of the eye-height input (shown while isActive && !losData)
LosChangeHeight ==
    /\ tool = "los" /\ isActive /\ analysisData = Null
    /\ \E newHeight \in Heights : observerHeight' = newHeight
    /\ UNCHANGED <<tool, isActive, placed, analysisData, loading, refs, requests>>
    /\ leaked' = IF observerHeight' # observerHeight
                  THEN LeakedAfterEffect(refs, leaked) ELSE leaked
    /\ leaked' <= MaxLeaked
    /\ UNCHANGED callVars
    /\ UNCHANGED drawVars

\* fetch resolves: an OK response has its body awaited; for another one
\* there is no else branch, only the finally
LosResponse(id) ==
    /\ tool = "los" /\ requests[id].phase = "sent"
    /\ \E outcomes \in LookupRuns :
          LET response == Serve(outcomes)
          IN  IF response.ok
              THEN /\ requests' = [requests EXCEPT ![id] =
                                      [@ EXCEPT !.phase = "reading", !.ok = TRUE,
                                                !.samples = response.samples]]
                   /\ UNCHANGED <<loading, analysisData>>
              ELSE /\ requests' = [requests EXCEPT ![id] =
                                      Done([@ EXCEPT !.lookupFailed =
                                                         SomeLookupFailed(outcomes)],
                                           "failed", "none", FALSE)]
                   /\ loading' = FALSE
                   /\ analysisData' = DataAfterResponse(FALSE, Null, analysisData)
    /\ UNCHANGED <<tool, isActive, placed, observerHeight, refs>>
    /\ UNCHANGED leaked
    /\ UNCHANGED callVars
    /\ UNCHANGED drawVars

\* the body of an OK response has arrived: setLosData, and the sight line is
\* drawn when layerRef.current is set
LosBody(id) ==
    /\ tool = "los" /\ requests[id].phase = "reading"
    /\ analysisData' = DataAfterResponse(TRUE,
                           [req |-> id, samples |-> requests[id].samples],
                           analysisData)
    /\ refs' = IF "layer" \in refs THEN refs \cup { "line" } ELSE refs
    /\ requests' = [requests EXCEPT ![id] = Done(@, "shown", "none", FALSE)]
    /\ loading' = FALSE
    /\ UNCHANGED <<tool, isActive, placed, observerHeight>>
    /\ UNCHANGED leaked
    /\ UNCHANGED callVars
    /\ UNCHANGED drawVars

\* fetch, or the reading of the body, rejects: console.error
LosError(id) ==
    /\ tool = "los" /\ requests[id].phase \in { "sent", "reading" }
    /\ requests' = [requests EXCEPT ![id] = Done(@, "error", "none", TRUE)]
    /\ loading' = FALSE
    /\ UNCHANGED <<tool, isActive, placed, observerHeight, analysisData, refs>>
    /\ UNCHANGED leaked
    /\ UNCHANGED callVars
    /\ UNCHANGED drawVars

\* handleClose (the chart's close button, shown while losData is set):
\* cleanup() and onClose, on which the parent may deactivate the tool
LosClose ==
    /\ tool = "los" /\ analysisData # Null
    /\ \E stays \in BOOLEAN :
          /\ isActive' = (isActive /\ stays)
          /\ refs' = IF isActive' /\ placed # 0 THEN { "layer" } ELSE {}
    /\ placed' = 0
    /\ analysisData' = Null
    /\ requests' = Abandon(requests)
    /\ UNCHANGED <<tool, observerHeight, loading>>
    /\ UNCHANGED leaked
    /\ UNCHANGED callVars
    /\ UNCHANGED drawVars

\* handleReset (New Analysis): cleanup() and a new layer group
LosReset ==
    /\ tool = "los" /\ analysisData # Null
    /\ refs' = IF ~isActive /\ placed # 0 THEN {} ELSE { "layer" }
    /\ placed' = 0
    /\ analysisData' = Null
    /\ requests' = Abandon(requests)
    /\ UNCHANGED <<tool, isActive, observerHeight, loading>>
    /\ leaked' = IF isActive /\ placed # 0 THEN leaked + 1 ELSE leaked
    /\ leaked' <= MaxLeaked
    /\ UNCHANGED callVars
    /\ UNCHANGED drawVars

----------------------------------------------------------------------------
(* The elevation profile tool *)

ProfileActivate ==
    /\ tool = "profile" /\ ~isActive
    /\ isActive' = TRUE
    /\ refs' = refs \cup { "layer" }
    /\ UNCHANGED <<tool, placed, observerHeight, analysisData, loading, requests>>
    /\ leaked' = LeakedAfterEffect(refs, leaked)
    /\ leaked' <= MaxLeaked
    /\ UNCHANGED callVars
    /\ UNCHANGED drawVars

\* isActive becomes false: the effect calls cleanup()
ProfileDeactivate ==
    /\ tool = "profile" /\ isActive
    /\ isActive' = FALSE
    /\ refs' = {}
    /\ placed' = 0
    /\ analysisData' = Null
    /\ requests' = Abandon(requests)
    /\ UNCHANGED <<tool, observerHeight, loading>>
    /\ UNCHANGED leaked
    /\ UNCHANGED callVars
    /\ UNCHANGED drawVars

\* handleClick: a point and its marker are added
ProfileClick ==
    /\ tool = "profile" /\ isActive /\ placed < MaxPoints
    /\ placed' = placed + 1
    /\ refs' = refs \cup { "markers", "layer" }
    /\ UNCHANGED <<tool, isActive, observerHeight, analysisData, loading, requests>>
    /\ leaked' = LeakedAfterEffect(refs, leaked)
    /\ leaked' <= MaxLeaked
    /\ UNCHANGED callVars
    /\ UNCHANGED drawVars

\* handleDblClick with at least 2 points: fetchProfile runs up to its fetch
\* (no timer, no abort signal)
ProfileDblClick ==
    /\ tool = "profile" /\ isActive /\ placed >= 2
    /\ Len(requests) < MaxRequests
    /\ loading' = TRUE
    /\ requests' = Append(requests, NewRequest(FALSE, 0, "none"))
    /\ UNCHANGED <<tool, isActive, placed, observerHeight, analysisData, refs>>
    /\ UNCHANGED leaked
    /\ UNCHANGED callVars
    /\ UNCHANGED drawVars

\* fetch resolves: an OK response has its body awaited, another one is
\* written to the console
ProfileResponse(id) ==
    /\ tool = "profile" /\ requests[id].phase = "sent"
    /\ \E outcomes \in LookupRuns :
          LET response == Serve(outcomes)
          IN  IF response.ok
              THEN /\ requests' = [requests EXCEPT ![id] =
                                      [@ EXCEPT !.phase = "reading", !.ok = TRUE,
                                                !.samples = response.samples]]
                   /\ UNCHANGED <<loading, analysisData>>
              ELSE /\ requests' = [requests EXCEPT ![id] =
                                      Done([@ EXCEPT !.lookupFailed =
                                                         SomeLookupFailed(outcomes)],
                                           "failed", "none", TRUE)]
                   /\ loading' = FALSE
                   /\ analysisData' = DataAfterResponse(FALSE, Null, analysisData)
    /\ UNCHANGED <<tool, isActive, placed, observerHeight, refs>>
    /\ UNCHANGED leaked
    /\ UNCHANGED callVars
    /\ UNCHANGED drawVars

\* the body of an OK response has arrived: setProfileData
ProfileBody(id) ==
    /\ tool = "profile" /\ requests[id].phase = "reading"
    /\ analysisData' = DataAfterResponse(TRUE,
                           [req |-> id, samples |-> requests[id].samples],
                           analysisData)
    /\ requests' = [requests EXCEPT ![id] = Done(@, "shown", "none", FALSE)]
    /\ loading' = FALSE
    /\ UNCHANGED <<tool, isActive, placed, observerHeight, refs>>
    /\ UNCHANGED leaked
    /\ UNCHANGED callVars
    /\ UNCHANGED drawVars

\* fetch, or the reading of the body, rejects: console.error
ProfileError(id) ==
    /\ tool = "profile" /\ requests[id].phase \in { "sent", "reading" }
    /\ requests' = [requests EXCEPT ![id] = Done(@, "error", "none", TRUE)]
    /\ loading' = FALSE
    /\ UNCHANGED <<tool, isActive, placed, observerHeight, analysisData, refs>>
    /\ UNCHANGED leaked
    /\ UNCHANGED callVars
    /\ UNCHANGED drawVars

\* handleClose (the chart's close button, shown while profileData is set):
\* cleanup() and onClose, on which the parent may deactivate the tool
ProfileClose ==
    /\ tool = "profile" /\ analysisData # Null
    /\ \E stays \in BOOLEAN :
          /\ isActive' = (isActive /\ stays)
          /\ refs' = IF isActive' /\ placed # 0 THEN { "layer" } ELSE {}
    /\ placed' = 0
    /\ analysisData' = Null
    /\ requests' = Abandon(requests)
    /\ UNCHANGED <<tool, observerHeight, loading>>
    /\ UNCHANGED leaked
    /\ UNCHANGED callVars
    /\ UNCHANGED drawVars

----------------------------------------------------------------------------

Tools == { "raytrace", "los", "profile" }

InitTools ==
    /\ InitCalls
    /\ tool \in Tools
    /\ ToolMounted
    /\ DrawingMounted

NextTools ==
    \/ RaytraceActivate
    \/ RaytraceDeactivate
    \/ RaytraceClick
    \/ RaytraceChangeHeight
    \/ \E id \in DOMAIN requests : RaytraceResponse(id)
    \/ \E id \in DOMAIN requests : RaytraceTimeout(id)
    \/ \E id \in DOMAIN requests : RaytraceError(id)
    \/ \E id \in DOMAIN requests : RaytraceBody(id)
    \/ RaytraceReset
    \/ LosActivate
    \/ LosDeactivate
    \/ LosClickObserver
    \/ LosClickTarget
    \/ LosChangeHeight
    \/ \E id \in DOMAIN requests : LosResponse(id)
    \/ \E id \in DOMAIN requests : LosBody(id)
    \/ \E id \in DOMAIN requests : LosError(id)
    \/ LosClose
    \/ LosReset
    \/ ProfileActivate
    \/ ProfileDeactivate
    \/ ProfileClick
    \/ ProfileDblClick
    \/ \E id \in DOMAIN requests : ProfileResponse(id)
    \/ \E id \in DOMAIN requests : ProfileBody(id)
    \/ \E id \in DOMAIN requests : ProfileError(id)
    \/ ProfileClose

SpecTools == InitTools /\ [][NextTools]_vars

----------------------------------------------------------------------------
(* The measure tool.  A behaviour of SpecDrawing follows one component of  *)
(* the map view: "measure" (MeasureTool, with CoordinateDisplay on the     *)
(* same map), "arrow" (ArrowTool), "marker" (MarkerPalette and             *)
(* MarkerPlacer) or "popup" (FeaturePopup).                                *)

\* at most MaxTimers reset timers are pending at a time
MaxTimers == 2

\* at most MaxHandlers handlers are registered on the map at a time
MaxHandlers == 5

\* map.off(type, fn): the handler is taken off the list (the oldest one of
\* that function; a handler that is not registered is no error)
RECURSIVE Off(_, _)
Off(hs, h) ==
    IF hs = <<>> THEN <<>>
    ELSE IF Head(hs) = h THEN Tail(hs)
    ELSE << Head(hs) >> \o Off(Tail(hs), h)

\* map.off(type) without a function: every handler of that type is taken
\* off, whoever registered it
OffAll(hs, types) == SelectSeq(hs, LAMBDA h : h \notin types)

\* the handlers of the map's mousemove event, and those of its click event
MouseMoveHandlers == { COORDINATES, HANDLE_MOUSE_MOVE }
ClickHandlers == { HANDLE_CLICK, HANDLE_SECOND_CLICK }

\* handleClick, lines 36-198: the first point, its marker, and the handlers
\* of the live preview and of the second click; nothing when points exist
handleClick(st) ==
    IF st.m.pointsRef = 0
    THEN [st EXCEPT !.m.pointsRef = 1,
                    !.m.markersRef = @ + 1,
                    !.h = @ \o << HANDLE_MOUSE_MOVE, HANDLE_SECOND_CLICK >>]
    ELSE st

\* handleSecondClick, lines 112-193 (registered with map.once): the second
\* point and its marker, both handlers off, the final line added to
\* measureLayerRef.current (a TypeError when that is null) and the timer
handleSecondClick(st) ==
    LET pushed == [st EXCEPT !.m.pointsRef = @ + 1,
                             !.m.markersRef = @ + 1,
                             !.h = Off(Off(@, HANDLE_SECOND_CLICK),
                                       HANDLE_MOUSE_MOVE)]
    IN  IF st.m.measureLayerRef = "null"
        THEN [pushed EXCEPT !.m.thrown = @ \cup { "handleSecondClick" }]
        ELSE [pushed EXCEPT !.m.lineRef = "line", !.m.timers = @ + 1]

\* the map fires a click: the handlers registered when it fires are called
\* in order of registration, fired[i] onward; a handler that throws ends it
RECURSIVE FireClick(_, _, _)
FireClick(fired, i, st) ==
    IF i > Len(fired) THEN st
    ELSE IF fired[i] = HANDLE_SECOND_CLICK
    THEN IF st.m.measureLayerRef = "null" THEN handleSecondClick(st)
         ELSE FireClick(fired, i + 1, handleSecondClick(st))
    ELSE IF fired[i] = HANDLE_CLICK
    THEN FireClick(fired, i + 1, handleClick(st))
    ELSE FireClick(fired, i + 1, st)

\* isActive becomes true: the effect creates the layer group and registers
\* handleClick
MeasureActivate ==
    /\ tool = "measure" /\ ~measure.isActive
    /\ Len(handlers) < MaxHandlers
    /\ measure' = [measure EXCEPT !.isActive = TRUE, !.measureLayerRef = "group"]
    /\ handlers' = Append(handlers, HANDLE_CLICK)
    /\ UNCHANGED <<arrow, palette, popup>>
    /\ UNCHANGED callVars
    /\ UNCHANGED toolVars

\* isActive becomes false: the cleanup of the effect (handleClick off, every
\* mousemove handler off, layer group and markers removed), then the effect
\* itself (the refs emptied)
MeasureDeactivate ==
    /\ tool = "measure" /\ measure.isActive
    /\ handlers' = OffAll(Off(handlers, HANDLE_CLICK), MouseMoveHandlers)
    /\ measure' = [measure EXCEPT !.isActive = FALSE, !.measureLayerRef = "null",
                                  !.markersRef = 0, !.pointsRef = 0,
                                  !.lineRef = "null"]
    /\ UNCHANGED <<arrow, palette, popup>>
    /\ UNCHANGED callVars
    /\ UNCHANGED toolVars

\* the user clicks the map
MeasureClick ==
    /\ tool = "measure"
    /\ \E i \in DOMAIN handlers : handlers[i] \in ClickHandlers
    /\ Len(handlers) + 2 <= MaxHandlers \/ measure.pointsRef # 0
    /\ measure.timers < MaxTimers
    /\ LET after == FireClick(handlers, 1, [m |-> measure, h |-> handlers])
       IN  /\ measure' = after.m
           /\ handlers' = after.h
    /\ UNCHANGED <<arrow, palette, popup>>
    /\ UNCHANGED callVars
    /\ UNCHANGED toolVars

\* the mouse moves over the map with the live preview on: handleMouseMove
\* reads pointsRef.current[0] (a TypeError when there is none) and draws
\* the line
MeasureMouseMove ==
    /\ tool = "measure"
    /\ \E i \in DOMAIN handlers : handlers[i] = HANDLE_MOUSE_MOVE
    /\ measure' = IF measure.pointsRef = 0
                  THEN [measure EXCEPT !.thrown = @ \cup { "handleMouseMove" }]
                  ELSE [measure EXCEPT !.lineRef = "line"]
    /\ UNCHANGED <<handlers, arrow, palette, popup>>
    /\ UNCHANGED callVars
    /\ UNCHANGED toolVars

\* a reset timer fires, lines 184-192: map.removeLayer(measureLayerRef
\* .current) (a TypeError when that is null), the markers removed, a new
\* layer group, the refs emptied
MeasureTimer ==
    /\ tool = "measure" /\ measure.timers > 0
    /\ measure' = IF measure.measureLayerRef = "null"
                  THEN [measure EXCEPT !.timers = @ - 1,
                                       !.thrown = @ \cup { "timer" }]
                  ELSE [measure EXCEPT !.timers = @ - 1, !.markersRef = 0,
                                       !.pointsRef = 0, !.lineRef = "null"]
    /\ UNCHANGED <<handlers, arrow, palette, popup>>
    /\ UNCHANGED callVars
    /\ UNCHANGED toolVars

\* CoordinateDisplayInner renders again (a mousemove it has handled, a zoom):
\* useMapEvents takes its handlers off and registers those of the new render
CoordinateDisplayRender ==
    /\ tool = "measure"
    /\ handlers' = Append(Off(handlers, COORDINATES), COORDINATES)
    /\ handlers' # handlers
    /\ UNCHANGED <<measure, arrow, palette, popup>>
    /\ UNCHANGED callVars
    /\ UNCHANGED toolVars

----------------------------------------------------------------------------
(* The arrow tool *)

\* at most MaxArrowPoints points are pushed to pointsRef between two resets
MaxArrowPoints == 3

\* at most MaxSaves calls of createFeature are awaited at a time
MaxSaves == 2

\* a layer group with these layers in it
LayerGroup(layers) == [kind |-> "layerGroup", layers |-> layers]

\* isActive becomes true: the effect creates the layer group
ArrowActivate ==
    /\ tool = "arrow" /\ ~arrow.isActive
    /\ arrow' = [arrow EXCEPT !.isActive = TRUE, !.arrowLayerRef = LayerGroup({})]
    /\ UNCHANGED <<handlers, measure, palette, popup>>
    /\ UNCHANGED callVars
    /\ UNCHANGED toolVars

\* isActive becomes false: the cleanup of the effect, then the effect itself
ArrowDeactivate ==
    /\ tool = "arrow" /\ arrow.isActive
    /\ arrow' = [arrow EXCEPT !.isActive = FALSE, !.arrowLayerRef = Null,
                              !.pointsRef = 0, !.completed = "none"]
    /\ UNCHANGED <<handlers, measure, palette, popup>>
    /\ UNCHANGED callVars
    /\ UNCHANGED toolVars

\* handleClick, lines 27-112, up to its return or its await: the point is
\* pushed; the first one gets its marker; the second one gets the arrow and
\* the prompt for a name, whose cancelling resets the tool and whose
\* answer starts the save; a further one is pushed and nothing else
ArrowClick ==
    /\ tool = "arrow" /\ arrow.isActive
    /\ arrow.pointsRef < MaxArrowPoints
    /\ \E name \in { "", "Arrow" } :
          arrow' =
             IF arrow.pointsRef = 0
             THEN [arrow EXCEPT !.pointsRef = 1, !.completed = "none",
                                !.arrowLayerRef.layers = @ \cup { "start" }]
             ELSE IF arrow.pointsRef = 1
             THEN IF name = ""
                  THEN [arrow EXCEPT !.pointsRef = 0, !.completed = "cancelled",
                                     !.arrowLayerRef = LayerGroup({})]
                  ELSE [arrow EXCEPT !.pointsRef = 2, !.completed = "none",
                                     !.arrowLayerRef.layers = @ \cup { "arrow" },
                                     !.saving = @ + 1]
             ELSE [arrow EXCEPT !.pointsRef = @ + 1]
    /\ arrow'.saving <= MaxSaves
    /\ UNCHANGED <<handlers, measure, palette, popup>>
    /\ UNCHANGED callVars
    /\ UNCHANGED toolVars

\* createFeature resolves: onFeatureCreated, the temporary layer replaced
\* and the points emptied; map.removeLayer(null) on a tool deactivated in
\* the meantime throws into the catch
ArrowSaved ==
    /\ tool = "arrow" /\ arrow.saving > 0
    /\ arrow' = IF arrow.arrowLayerRef = Null
                THEN [arrow EXCEPT !.saving = @ - 1, !.completed = "failed"]
                ELSE [arrow EXCEPT !.saving = @ - 1, !.completed = "saved",
                                   !.arrowLayerRef = LayerGroup({}), !.pointsRef = 0]
    /\ UNCHANGED <<handlers, measure, palette, popup>>
    /\ UNCHANGED callVars
    /\ UNCHANGED toolVars

\* createFeature rejects: the catch writes to the console and alerts
ArrowSaveFailed ==
    /\ tool = "arrow" /\ arrow.saving > 0
    /\ arrow' = [arrow EXCEPT !.saving = @ - 1, !.completed = "failed"]
    /\ UNCHANGED <<handlers, measure, palette, popup>>
    /\ UNCHANGED callVars
    /\ UNCHANGED toolVars

----------------------------------------------------------------------------
(* The marker palette and the placing of markers *)

\* AFFILIATIONS: the codes
AFFILIATIONS == { "F", "H", "N", "U" }

\* SYMBOL_CATEGORIES: three of its symbols, each with its SIDC pattern
SYMBOLS ==
    { [id |-> "infantry",
       sidc |-> << "S", "*", "G", "*", "U", "C", "I", "I", "-", "-",
                   "*", "*", "*", "*", "*" >>],
      [id |-> "uav",
       sidc |-> << "S", "*", "A", "*", "M", "F", "Q", "-", "-", "-",
                   "*", "*", "*", "*", "*" >>],
      [id |-> "target",
       sidc |-> << "G", "*", "F", "*", "T", "-", "-", "-", "-", "-",
                   "*", "*", "*", "*", "*" >>] }

\* String.prototype.replace(pattern, replacement) with a string as pattern:
\* the first occurrence is replaced, and the string is returned as it is
\* when there is none
RECURSIVE ReplaceFirst(_, _, _)
ReplaceFirst(str, pattern, replacement) ==
    IF str = <<>> THEN <<>>
    ELSE IF Head(str) = pattern THEN << replacement >> \o Tail(str)
    ELSE << Head(str) >> \o ReplaceFirst(Tail(str), pattern, replacement)

\* generateSIDC(baseSidc, affiliation)
generateSIDC(baseSidc, affiliation) == ReplaceFirst(baseSidc, "*", affiliation)

\* symbolPreviews: the symbols as the palette shows them for an affiliation,
\* each with the SIDC generated for it in place of its pattern
symbolPreviews(selectedAffiliation) ==
    { [symbol EXCEPT !.sidc = generateSIDC(symbol.sidc, selectedAffiliation)] :
          symbol \in SYMBOLS }

\* a click on an affiliation button: handleAffiliationSelect
PaletteSelectAffiliation ==
    /\ tool = "marker"
    /\ \E code \in AFFILIATIONS :
          /\ code # palette.selectedAffiliation
          /\ palette' = [palette EXCEPT !.selectedAffiliation = code]
    /\ UNCHANGED <<handlers, measure, arrow, popup>>
    /\ UNCHANGED callVars
    /\ UNCHANGED toolVars

\* a click on a symbol button: onSymbolSelect(symbol) with the symbol of the
\* previews, handleSymbolSelect stores it
PaletteSelectSymbol ==
    /\ tool = "marker"
    /\ \E symbol \in symbolPreviews(palette.selectedAffiliation) :
          palette' = [palette EXCEPT !.selectedSymbol = symbol]
    /\ UNCHANGED <<handlers, measure, arrow, popup>>
    /\ UNCHANGED callVars
    /\ UNCHANGED toolVars

\* Escape: setSelectedSymbol(null)
PaletteDeselect ==
    /\ tool = "marker" /\ palette.selectedSymbol # Null
    /\ palette' = [palette EXCEPT !.selectedSymbol = Null]
    /\ UNCHANGED <<handlers, measure, arrow, popup>>
    /\ UNCHANGED callVars
    /\ UNCHANGED toolVars

\* MarkerPlacer's click handler with a symbol selected: the marker handed
\* to onMarkerPlaced
MarkerPlacerClick ==
    /\ tool = "marker" /\ palette.selectedSymbol # Null
    /\ palette' = [palette EXCEPT !.placed =
                      [sidc |-> generateSIDC(palette.selectedSymbol.sidc,
                                             palette.selectedAffiliation),
                       affiliation |-> palette.selectedAffiliation,
                       symbolId |-> palette.selectedSymbol.id]]
    /\ UNCHANGED <<handlers, measure, arrow, popup>>
    /\ UNCHANGED callVars
    /\ UNCHANGED toolVars

----------------------------------------------------------------------------
(* The drawn features and the feature popup *)

\* a polygon or line drawn on the map has at most MaxVertices vertices
MaxVertices == 4

\* the latitudes and longitudes of the vertices drawn
VertexLats == { 58, 59 }
VertexLngs == { 24, 26 }

\* Leaflet's LatLng objects, and lists of them
LatLngs == [lat : VertexLats, lng : VertexLngs]
LatLngLists(min) == UNION { [1..n -> LatLngs] : n \in min..MaxVertices }

\* the layers the user draws for a feature type: a circle has getLatLng and
\* getRadius, the others getLatLngs (the outer ring for a polygon)
Layers(featureType) ==
    IF featureType = "circle"
    THEN { [latlng |-> ll, radius |-> 1000] : ll \in LatLngs }
    ELSE IF featureType = "line"
    THEN { [latlngs |-> l] : l \in LatLngLists(2) }
    ELSE IF featureType = "rectangle"
    THEN { [latlngs |-> l] : l \in [1..4 -> LatLngs] }
    ELSE { [latlngs |-> l] : l \in LatLngLists(3) }

\* layerToGeometry(layer, featureType): coordinates as [lat, lng] arrays
layerToGeometry(layer, featureType) ==
    IF featureType = "circle"
    THEN [type |-> "circle",
          center |-> << layer.latlng.lat, layer.latlng.lng >>,
          radius |-> layer.radius]
    ELSE IF featureType \in { "polygon", "rectangle" }
    THEN [type |-> "polygon",
          coordinates |-> [i \in DOMAIN layer.latlngs |->
                              << layer.latlngs[i].lat, layer.latlngs[i].lng >>]]
    ELSE IF featureType = "line"
    THEN [type |-> "line",
          coordinates |-> [i \in DOMAIN layer.latlngs |->
                              << layer.latlngs[i].lat, layer.latlngs[i].lng >>]]
    ELSE Null

\* the sums of the centroid loop of getFeatureCenter over coords[1..k]: each
\* coord is destructured as [lat, lng] = [coord[1], coord[0]] (coord[0] is
\* no array), in the tuples' numbering lat = coord[2], lng = coord[1]
RECURSIVE CentroidSums(_, _)
CentroidSums(coords, k) ==
    IF k = 0 THEN [latSum |-> 0, lngSum |-> 0]
    ELSE LET sums == CentroidSums(coords, k - 1)
             lat == coords[k][2]
             lng == coords[k][1]
         IN  [latSum |-> sums.latSum + lat, lngSum |-> sums.lngSum + lng]

\* a quotient a / b of JavaScript numbers, kept as the fraction
Quotient(a, b) == [num |-> a, den |-> b]

\* getFeatureCenter(geometry, featureType) for a geometry in the format of
\* layerToGeometry
getFeatureCenter(geometry, featureType) ==
    IF featureType = "circle" \/ geometry.type = "circle"
    THEN geometry.center
    ELSE IF featureType \in { "polygon", "rectangle" } \/ geometry.type = "polygon"
    THEN LET coords == geometry.coordinates
             sums == CentroidSums(coords, Len(coords))
         IN  << Quotient(sums.latSum, Len(coords)),
                Quotient(sums.lngSum, Len(coords)) >>
    ELSE IF featureType = "line" \/ geometry.type = "line"
    THEN geometry.coordinates[(Len(geometry.coordinates) \div 2) + 1]
    ELSE Null

\* the types of the features drawn
FeatureTypes == { "circle", "polygon", "rectangle", "line" }

\* BORDER_STYLES: the values of the options
BORDER_STYLES == { "solid", "dashed", "dotted" }

\* feature.style?.dashArray || 'solid'
InitialBorderStyle(feature) ==
    IF feature.style.dashArray = Null THEN "solid"
    ELSE feature.style.dashArray.chars

\* the dashArray handleSave computes from the borderStyle state
DashArrayOf(borderStyle) ==
    IF borderStyle = "dashed" THEN Str("10, 5")
    ELSE IF borderStyle = "dotted" THEN Str("2, 5")
    ELSE Null

\* the user draws a feature (no dash style yet) and opens its popup:
\* FeaturePopup mounts, its state is initialised from the feature and its
\* render computes the center
PopupOpen ==
    /\ tool = "popup" /\ popup.feature = Null
    /\ \E featureType \in FeatureTypes :
         \E layer \in Layers(featureType) :
            LET feature == [feature_type |-> featureType,
                            geometry |-> layerToGeometry(layer, featureType),
                            style |-> [dashArray |-> Null]]
            IN  popup' = [popup EXCEPT
                             !.feature = feature,
                             !.borderStyle = InitialBorderStyle(feature),
                             !.center = getFeatureCenter(feature.geometry,
                                                         feature.feature_type),
                             !.touched = FALSE]
    /\ UNCHANGED <<handlers, measure, arrow, palette>>
    /\ UNCHANGED callVars
    /\ UNCHANGED toolVars

\* the border-style select: onChange sets the state to the option's value
PopupChangeBorderStyle ==
    /\ tool = "popup" /\ popup.feature # Null
    /\ \E value \in BORDER_STYLES :
          popup' = [popup EXCEPT !.borderStyle = value, !.touched = TRUE]
    /\ UNCHANGED <<handlers, measure, arrow, palette>>
    /\ UNCHANGED callVars
    /\ UNCHANGED toolVars

\* Save: handleSave hands the feature with the new style to onSave, the map
\* view stores it, and the effect on [feature] sets the state from it
PopupSave ==
    /\ tool = "popup" /\ popup.feature # Null
    /\ LET updated == [popup.feature EXCEPT
                          !.style.dashArray = DashArrayOf(popup.borderStyle)]
       IN  popup' = [popup EXCEPT
                        !.feature = updated,
                        !.borderStyle = InitialBorderStyle(updated),
                        !.center = getFeatureCenter(updated.geometry,
                                                    updated.feature_type),
                        !.stored = popup.feature.style.dashArray,
                        !.touchedAtSave = popup.touched,
                        !.touched = FALSE,
                        !.saved = TRUE]
    /\ UNCHANGED <<handlers, measure, arrow, palette>>
    /\ UNCHANGED callVars
    /\ UNCHANGED toolVars

\* the popup is closed and opened again on the same feature: FeaturePopup
\* mounts anew, its state is initialised from the feature
PopupReopen ==
    /\ tool = "popup" /\ popup.feature # Null
    /\ popup.borderStyle # InitialBorderStyle(popup.feature) \/ popup.touched
    /\ popup' = [popup EXCEPT !.borderStyle = InitialBorderStyle(popup.feature),
                              !.touched = FALSE]
    /\ UNCHANGED <<handlers, measure, arrow, palette>>
    /\ UNCHANGED callVars
    /\ UNCHANGED toolVars

----------------------------------------------------------------------------

Components == { "measure", "arrow", "marker", "popup" }

InitDrawing ==
    /\ InitCalls
    /\ tool \in Components
    /\ ToolMounted
    /\ DrawingMounted

NextDrawing ==
    \/ MeasureActivate
    \/ MeasureDeactivate
    \/ MeasureClick
    \/ MeasureMouseMove
    \/ MeasureTimer
    \/ CoordinateDisplayRender
    \/ ArrowActivate
    \/ ArrowDeactivate
    \/ ArrowClick
    \/ ArrowSaved
    \/ ArrowSaveFailed
    \/ PaletteSelectAffiliation
    \/ PaletteSelectSymbol
    \/ PaletteDeselect
    \/ MarkerPlacerClick
    \/ PopupOpen
    \/ PopupChangeBorderStyle
    \/ PopupSave
    \/ PopupReopen

SpecDrawing == InitDrawing /\ [][NextDrawing]_vars

----------------------------------------------------------------------------
(* C1 *)

\* C1: for every longitude in [-180, 180] getUTMZone returns
\* floor((lon+180)/6)+1 and that value is a zone number in 1..60.
C1_ZoneInRange ==
    (pc = "returned" /\ op = "getUTMZone") =>
        /\ ret.val = ((args.lon + 180 * Unit) \div (6 * Unit)) + 1
        /\ ret.val \in 1 .. 60

----------------------------------------------------------------------------
(* C2 *)

\* C2: for every latitude in [-90, 90] getUTMZoneLetter returns a letter,
\* never undefined: one of CDEFGHJKLMNPQRSTUVWX for -80 <= lat <= 84,
\* 'A' below -80 and 'Z' above 84.
C2_LetterDefined ==
    (pc = "returned" /\ op = "getUTMZoneLetter") =>
        /\ ret.kind = "string"
        /\ (args.lat >= -80 * Unit /\ args.lat <= 84 * Unit) =>
               \E i \in 1 .. Len(letters) : ret.chars = <<letters[i]>>
        /\ args.lat < -80 * Unit => ret.chars = <<"A">>
        /\ args.lat > 84 * Unit => ret.chars = <<"Z">>

----------------------------------------------------------------------------
(* C3 *)

\* C3: when the conversion to the military grid fails (point outside
\* 80S..84N) latLonToMGRS returns an explicit error result that differs in
\* kind from a grid string; it never returns a string such as "Invalid".
C3_ExplicitError ==
    (pc = "returned" /\ op = "latLonToMGRS" /\ lib.threw) =>
        /\ ret.kind # "string"
        /\ ret.kind \in { "null", "error" }

----------------------------------------------------------------------------
(* C5 *)

\* the grid string of the display format, from the parts mgrs.forward made
FormatOf(fw, precision) ==
    fw.zone \o fw.band \o <<" ">> \o fw.sq \o
    (IF precision = 0 THEN <<>>
     ELSE <<" ">> \o fw.easting \o <<" ">> \o fw.northing)

\* C5: for every point in the band, every zone 1..60 and every precision
\* 0..5 the formatted result is "<zone><band> <square> <easting> <northing>"
\* with precision digits each, and zone, band and square only at precision 0.
C5_DisplayFormat ==
    (pc = "returned" /\ op = "latLonToMGRS" /\ args.formatted /\ ~lib.threw) =>
        /\ ret.kind = "string"
        /\ Len(lib.sq) = 2
        /\ Len(lib.easting) = args.precision
        /\ Len(lib.northing) = args.precision
        /\ ret.chars = FormatOf(lib, args.precision)

----------------------------------------------------------------------------
(* C4 *)

\* a parsed number within -bound..bound degrees
Within(x, bound) == ~x.nan /\ x.milli >= -1000 * bound /\ x.milli <= 1000 * bound

\* C4: for every input text parseCoordinates returns null or a point with
\* -90 <= lat <= 90 and -180 <= lon <= 180.
C4_NullOrGeoPoint ==
    (pc = "returned" /\ op = "parseCoordinates") =>
        \/ ret.kind = "null"
        \/ /\ ret.kind = "point"
           /\ Within(ret.lat, 90)
           /\ Within(ret.lon, 180)

----------------------------------------------------------------------------
(* C7 *)

\* C7: calculateDistance is symmetric: with the two points exchanged it
\* returns the same value.
C7_Symmetric ==
    (pc = "returned" /\ op = "calculateDistance") => ret = lib.ret

\* two different points a positive distance apart have been measured
C7_Witness ==
    /\ pc = "returned" /\ op = "calculateDistance"
    /\ args.p1[1] # args.p2[1] /\ args.p1[2] # args.p2[2]
    /\ ret.kind = "number" /\ ret.val > 0
    /\ ret = lib.ret

----------------------------------------------------------------------------
(* C8 *)

SamePlace(p1, p2) ==
    /\ p1[1] = p2[1]
    /\ \/ p1[1] \in { -90, 90 }
       \/ (p1[2] - p2[2]) % 360 = 0

----------------------------------------------------------------------------
(* C9 *)

\* the sum of calculateDistance over the first k pairs of consecutive points
RECURSIVE SumOfEdges(_, _)
SumOfEdges(points, k) ==
    IF k <= 0 THEN Num(0)
    ELSE Add(SumOfEdges(points, k - 1),
             calculateDistance(points[k][1], points[k][2],
                               points[k + 1][1], points[k + 1][2]))

\* C9: calculatePathDistance(points) is the sum of calculateDistance over
\* the pairs of consecutive points, in order, and 0 for fewer than 2 points.
C9_PathIsSumOfEdges ==
    (pc = "returned" /\ op = "calculatePathDistance") =>
        /\ ret = SumOfEdges(args.points, Len(args.points) - 1)
        /\ Len(args.points) < 2 => ret = Num(0)

\* a path of three different points, both edges of positive length
C9_Witness ==
    /\ pc = "returned" /\ op = "calculatePathDistance"
    /\ Len(args.points) = 3
    /\ args.points[1] # args.points[2] /\ args.points[2] # args.points[3]
    /\ ret.kind = "number"
    /\ ret.val > calculateDistance(args.points[1][1], args.points[1][2],
                                   args.points[2][1], args.points[2][2]).val

----------------------------------------------------------------------------
(* C10 *)

\* C10: degenerate geometry gives zero and no exception:
\* calculatePathDistance is 0 for fewer than 2 points, calculatePolygonArea
\* is 0 for fewer than 3 points, calculatePolygonPerimeter is 0 for fewer
\* than 2 points.
C10_DegenerateIsZero ==
    pc = "returned" =>
        /\ (op = "calculatePathDistance" /\ Len(args.points) < 2) => ret = Num(0)
        /\ (op = "calculatePolygonArea" /\ Len(args.points) < 3) => ret = Num(0)
        /\ (op = "calculatePolygonPerimeter" /\ Len(args.points) < 2) => ret = Num(0)

\* the area of the empty sequence was asked for and came back as zero
C10_Witness ==
    /\ pc = "returned" /\ op = "calculatePolygonArea"
    /\ args.points = <<>>
    /\ ret = Num(0)

----------------------------------------------------------------------------
(* C11 *)

\* the first and the last point of a sequence differ
IsOpen(points) ==
    points[1][1] # points[Len(points)][1] \/ points[1][2] # points[Len(points)][2]

\* C11: calculatePolygonArea closes the ring itself: for an open sequence of
\* at least 3 vertices the area is the area of the same sequence with the
\* first point repeated at the end, on the spherical and on the planar path,
\* and the caller's array is as it was before the call.
C11_AutoClose ==
    (pc = "returned" /\ op = "calculatePolygonArea"
        /\ Len(args.points) >= 3 /\ IsOpen(args.points)) =>
        /\ ret = lib.closedRet
        /\ lib.path \in { "spherical", "planar" }
        /\ lib.after = args.points

\* an open triangle of a degree across was measured on the spherical path
\* and has an area
C11_Witness ==
    /\ pc = "returned" /\ op = "calculatePolygonArea"
    /\ Len(args.points) = 3 /\ IsOpen(args.points)
    /\ lib.path = "spherical"
    /\ ret.kind = "number" /\ ret.val > 0
    /\ ret = lib.closedRet

\* an open triangle of 60 degrees was measured on the planar path and has
\* an area
C11_WitnessPlanar ==
    /\ pc = "returned" /\ op = "calculatePolygonArea"
    /\ Len(args.points) = 3 /\ IsOpen(args.points)
    /\ lib.path = "planar"
    /\ ret.kind = "number" /\ ret.val > 0
    /\ ret = lib.closedRet

----------------------------------------------------------------------------
(* C12 *)

\* the vertices of a ring: the points without the repeated closing point
Vertices(points) ==
    IF IsOpen(points) THEN points ELSE SubSeq(points, 1, Len(points) - 1)

\* C12: on the planar path the latitude the shoelace area is scaled at is
\* the arithmetic mean of the latitudes of the ring's n vertices, the
\* repeated closing vertex not counted twice.
C12_MeanLatitude ==
    (pc = "returned" /\ op = "calculatePolygonArea" /\ lib.path = "planar") =>
        LET vertices == Vertices(args.points)
        IN  lib.avgLat.num * Len(vertices)
                = LatSum(vertices, 1) * lib.avgLat.den

----------------------------------------------------------------------------
(* C13 *)

\* the distance from the last point back to the first
ClosingEdge(points) ==
    calculateDistance(points[Len(points)][1], points[Len(points)][2],
                      points[1][1], points[1][2])

\* C13: for at least 2 points calculatePolygonPerimeter is the sum of the
\* consecutive edges, plus the closing edge when first and last point differ.
C13_PerimeterClosesRing ==
    (pc = "returned" /\ op = "calculatePolygonPerimeter"
        /\ Len(args.points) >= 2) =>
        ret = IF IsOpen(args.points)
              THEN Add(SumOfEdges(args.points, Len(args.points) - 1),
                       ClosingEdge(args.points))
              ELSE SumOfEdges(args.points, Len(args.points) - 1)

----------------------------------------------------------------------------
(* C14 *)

\* C14: calculateBearing returns b with 0 <= b < 360; b is 0 when the two
\* points coincide, 0 from (0,0) to (1,0) and 90 from (0,0) to (0,1).
C14_BearingRange ==
    (pc = "returned" /\ op = "calculateBearing") =>
        /\ ret.kind = "number"
        /\ 0 <= ret.val /\ ret.val < 360000
        /\ args.p1 = args.p2 => ret.val = 0
        /\ (args.p1 = <<0, 0>> /\ args.p2 = <<1, 0>>) => ret.val = 0
        /\ (args.p1 = <<0, 0>> /\ args.p2 = <<0, 1>>) => ret.val = 90000

\* a bearing to the west was asked for: atan2 is negative and the result
\* lies in the upper half of the range
C14_Witness ==
    /\ pc = "returned" /\ op = "calculateBearing"
    /\ args.p1 = <<0, 0>> /\ args.p2 = <<0, -60>>
    /\ ret = Num(270000)

----------------------------------------------------------------------------
(* C15 *)

\* the interior samples of a profile whose terrain lies strictly above the
\* straight line from (0, eye) to (total distance, target elevation):
\* terrain > eye + (target - eye) * distance / total, both sides times total
AboveSightline(profile, eye) ==
    LET last == profile[Len(profile)]
    IN  { i \in 2 .. Len(profile) - 1 :
            profile[i].elevation * last.distance
                > eye * last.distance
                  + (last.elevation - eye) * profile[i].distance }

\* the least element of a non-empty set of numbers
Least(S) == CHOOSE x \in S : \A y \in S : x <= y

\* C15: the sightline is linear between observer elevation + eye height and
\* the target elevation; the obstruction is the first interior sample whose
\* terrain strictly exceeds it (a tie is visible); visible holds exactly when
\* no interior sample obstructs, and obstruction.distance is that sample's
\* distance.
C15_FirstObstruction ==
    (pc = "returned" /\ op = "lineOfSight") =>
        LET above == AboveSightline(ret.profile,
                                    ret.observer_elevation + args.observer_height)
        IN  /\ ret.visible <=> above = {}
            /\ above = {} => ret.obstruction = Null
            /\ above # {} =>
                  /\ ret.obstruction # Null
                  /\ ret.obstruction.distance = ret.profile[Least(above)].distance
                  /\ ret.obstruction.elevation = ret.profile[Least(above)].elevation

\* a profile whose second sample touches the sightline, whose third and
\* fourth samples lie above it: the third is the obstruction
C15_Witness ==
    /\ pc = "returned" /\ op = "lineOfSight"
    /\ args.elev = <<0, 1, 2, 2, 1>> /\ args.observer_height = 1
    /\ ~ret.visible
    /\ ret.obstruction.distance = 2 * SampleSpacing

----------------------------------------------------------------------------
(* C16 *)

\* the samples of a ray that are blocked
Blocked(ray) == { j \in 1 .. Len(ray.points) : ~ray.points[j].visible }

\* C16: on a ray a sample is visible exactly when its elevation angle from
\* the eye is not below the angle of any visible sample before it (the
\* running maximum, which only visible samples raise); first_obstruction is
\* the distance of the first blocked sample, absent when none is blocked; the
\* drawing marks that sample and no other.
C16_HorizonTest ==
    (pc = "returned" /\ op = "traceRay") =>
        /\ \A j \in 1 .. Len(ret.points) :
              ret.points[j].visible <=>
                  \A i \in 1 .. j - 1 :
                      ret.points[i].visible =>
                          (args.elevs[j] - args.eye) * ret.points[i].distance
                              >= (args.elevs[i] - args.eye) * ret.points[j].distance
        /\ Blocked(ret) = {} =>
              /\ ret.first_obstruction = Null
              /\ lib.ray.markers = {} /\ ~lib.ray.dashed
        /\ Blocked(ret) # {} =>
              /\ ret.first_obstruction = Num(ret.points[Least(Blocked(ret))].distance)
              /\ lib.ray.markers = { Least(Blocked(ret)) } /\ lib.ray.dashed

\* a ray with a ridge at the second sample: the third and the fifth sample
\* are blocked, the fourth reaches the horizon angle again (a tie) and is
\* visible
C16_Witness ==
    /\ pc = "returned" /\ op = "traceRay"
    /\ args.eye = 0 /\ args.elevs = <<0, 1, 1, 2, 2>>
    /\ Blocked(ret) = { 3, 5 }
    /\ ret.first_obstruction = Num(600)

----------------------------------------------------------------------------
(* C18 *)

\* the first-obstruction distance of a ray, the full radius when it has none
ObstructionOrRadius(ray) ==
    IF ray.first_obstruction = Null THEN RADIUS ELSE ray.first_obstruction.val

\* C18: a drawn visibility map of R rays has one sector per ray i, between
\* ray i and ray (i + 1) mod R, shaded visible exactly when the average of
\* the two rays' first-obstruction distances exceeds half the radius.
C18_SectorShading ==
    (pc = "returned" /\ op = "visualizeRaytrace" /\ ret.drawn) =>
        LET map == args.data.visibility_map
        IN  /\ Len(ret.sectors) = Len(map)
            /\ \A i \in 0 .. Len(map) - 1 :
                  LET sector == ret.sectors[i + 1]
                      next == IF i = Len(map) - 1 THEN 0 ELSE i + 1
                  IN  /\ sector.from = i /\ sector.to = next
                      \* average > RADIUS / 2, both sides doubled
                      /\ sector.isVisible <=>
                            ObstructionOrRadius(map[i + 1])
                              + ObstructionOrRadius(map[next + 1]) > RADIUS

\* three rays drawn: two sectors whose average is exactly half the radius
\* (400 and 600 metres) or below are shaded blocked, one is shaded visible
C18_Witness ==
    /\ pc = "returned" /\ op = "visualizeRaytrace" /\ ret.drawn
    /\ Len(ret.sectors) = 3
    /\ args.data.visibility_map[1].first_obstruction = Num(400)
    /\ args.data.visibility_map[2].first_obstruction = Num(600)
    /\ args.data.visibility_map[3].first_obstruction = Null
    /\ ~ret.sectors[1].isVisible
    /\ ret.sectors[2].isVisible
    /\ ret.sectors[3].isVisible

----------------------------------------------------------------------------
(* C17 *)

\* the requests that ended without a result: a response that was not OK, a
\* rejected fetch or body, or the abort by the timer
Failures == { "failed", "error", "timeout" }

\* no response carries a part of the samples: a request one of whose lookups
\* failed or timed out is answered not OK and without samples, an OK answer
\* carries all of them, and so does what is displayed
NoPartialResult ==
    /\ \A id \in DOMAIN requests :
          /\ requests[id].lookupFailed =>
                ~requests[id].ok /\ requests[id].samples = 0
          /\ requests[id].ok => requests[id].samples = Lookups
    /\ analysisData # Null => analysisData.samples = Lookups

\* a step in which a request ends without a result leaves the displayed
\* analysis data as it was
FailureKeepsData ==
    (\E id \in DOMAIN requests :
        /\ requests[id].phase # "done"
        /\ requests'[id].phase = "done"
        /\ requests'[id].outcome \in Failures)
    => analysisData' = analysisData

\* C17: a failed or timed-out elevation lookup fails the whole request and
\* no partial result is returned; a response that is not OK and a failed
\* fetch never change profileData, losData or visibilityData.
C17_FailFast == [](NoPartialResult) /\ [][FailureKeepsData]_vars

\* a request failed on the server while the result of another request is
\* displayed, and the display is still that result
C17_Witness ==
    \E id \in DOMAIN requests :
        /\ requests[id].outcome = "failed" /\ requests[id].lookupFailed
        /\ analysisData # Null /\ analysisData.req # id

----------------------------------------------------------------------------
(* C19 *)

\* C19: the caller tells its own timeout from a failure reported by the
\* server and gives different feedback for each; every failed request of any
\* of the three tools gives the user some feedback; a request answered within
\* the 30 s is never reported as timed out.
C19_FailureFeedback ==
    \A id \in DOMAIN requests :
        LET r == requests[id]
        IN  /\ r.outcome = "timeout" => r.alert = "timed out"
            /\ r.outcome = "failed" => r.alert \notin { "none", "timed out" }
            /\ r.outcome \in Failures => r.alert # "none"
            /\ r.timer = "cleared" => r.alert # "timed out"

----------------------------------------------------------------------------
(* C20 *)

\* C20: a request under way when the tool is reset, closed or deactivated
\* is cancelled and its late response is never applied: what is displayed
\* comes from a request issued after the last cleanup.
C20_NoLateResponse ==
    analysisData # Null => ~requests[analysisData.req].abandoned

----------------------------------------------------------------------------
(* C22 *)

\* C22: in the radial tool, once the request of a placed observer has
\* returned successfully, the visibility visualization is on the map: the
\* data of a request that was not abandoned are displayed only together
\* with the layer visualizeRaytrace draws.
C22_VisualizationDrawn ==
    (tool = "raytrace" /\ analysisData # Null
        /\ ~requests[analysisData.req].abandoned)
    => "visibility" \in refs

----------------------------------------------------------------------------
(* C23 *)

\* every request carries the eye height that the input showed when it was
\* issued
CarriesEnteredHeight ==
    \A id \in DOMAIN requests : requests[id].height = requests[id].entered

\* when all requests are done and the one issued last was answered with a
\* result, that result is the one displayed
LastIssuedIsDisplayed ==
    (/\ requests # <<>>
     /\ Pending = {}
     /\ requests[Len(requests)].outcome = "shown"
     /\ ~requests[Len(requests)].abandoned
     /\ analysisData # Null)
    => analysisData.req = Len(requests)

\* C23: in the radial tool the request re-issued after a change of the eye
\* height carries the new eye height, and the data finally displayed are the
\* response to the request issued last, also when two requests overlap.
C23_FreshEyeHeight ==
    tool = "raytrace" => CarriesEnteredHeight /\ LastIssuedIsDisplayed

----------------------------------------------------------------------------
(* C24 *)

\* C24: an analysis tool that is not active has left no layer on the map:
\* none of its refs holds one, and none is on the map without a ref to it.
C24_NoLayerLeft == ~isActive => refs = {} /\ leaked = 0

----------------------------------------------------------------------------
(* C25 *)

\* the handlers MeasureTool has registered on the map
MeasureHandlers == { HANDLE_CLICK, HANDLE_MOUSE_MOVE, HANDLE_SECOND_CLICK }

Registered(h) == \E i \in DOMAIN handlers : handlers[i] = h

\* the handler of another component stays registered
OthersKept == Registered(COORDINATES)

\* no handler of the measure tool is registered while it is not active
OwnRemoved == ~measure.isActive => \A h \in MeasureHandlers : ~Registered(h)

\* C25: deactivating the measure tool takes its own handlers off the map,
\* the one-shot handler of the second click included, and no handler of
\* another component (the mousemove handler of the coordinate display).
C25_OwnHandlersOnly == tool = "measure" => OthersKept /\ OwnRemoved

----------------------------------------------------------------------------
(* C26 *)

\* nothing of the measure tool is on the map while it is not active
NothingOnMap ==
    ~measure.isActive =>
        measure.measureLayerRef = "null" /\ measure.markersRef = 0

\* C26: while the measure tool is not active, no measure layer and no
\* measure marker is on the map, whatever the order of clicks, deactivation
\* and reset timer; the timer does not fail on a missing layer.
C26_InactiveLeavesNothing ==
    tool = "measure" => NothingOnMap /\ "timer" \notin measure.thrown

----------------------------------------------------------------------------
(* C27 *)

\* C27: in the arrow tool, once the handling of a second click has ended,
\* be it with the feature saved, the prompt cancelled or the save failed,
\* the point list is empty and the temporary layer is empty.
C27_BackToInitial ==
    (tool = "arrow" /\ arrow.isActive /\ arrow.completed # "none")
    => arrow.pointsRef = 0 /\ arrow.arrowLayerRef = LayerGroup({})

----------------------------------------------------------------------------
(* C28 *)

\* the SIDC pattern of a symbol of SYMBOL_CATEGORIES
BasePattern(symbolId) == (CHOOSE symbol \in SYMBOLS : symbol.id = symbolId).sidc

\* C28: the SIDC of a placed marker is the pattern of its symbol with the
\* affiliation selected at the click written at the second character, and
\* nothing else changed; its affiliation field is that character.
C28_AffiliationOnly ==
    palette.placed # Null =>
        palette.placed.sidc =
            [BasePattern(palette.placed.symbolId) EXCEPT ![2] = palette.placed.affiliation]

----------------------------------------------------------------------------
(* C29 *)

\* C29: a save from the feature popup without a use of the border-style
\* control since the feature was opened or saved last leaves the feature's
\* dashArray as it was stored.
C29_SavePreservesDash ==
    (popup.saved /\ ~popup.touchedAtSave) =>
        popup.feature.style.dashArray = popup.stored

----------------------------------------------------------------------------
(* C21 *)

\* the sum of the i-th components of coords[1..k]
RECURSIVE ComponentSum(_, _, _)
ComponentSum(coords, i, k) ==
    IF k = 0 THEN 0 ELSE coords[k][i] + ComponentSum(coords, i, k - 1)

\* the fraction q is the mean of the i-th components of coords
IsMeanOf(q, coords, i) ==
    q.num * Len(coords) = ComponentSum(coords, i, Len(coords)) * q.den

\* C21: the center of a polygon or rectangle stored by layerToGeometry is
\* [mean of the vertices' latitudes, mean of their longitudes], and the
\* center of a circle is its stored center.
C21_CenterIsLatLng ==
    popup.feature # Null =>
        LET geometry == popup.feature.geometry
        IN  /\ popup.feature.feature_type \in { "polygon", "rectangle" } =>
                  /\ IsMeanOf(popup.center[1], geometry.coordinates, 1)
                  /\ IsMeanOf(popup.center[2], geometry.coordinates, 2)
            /\ popup.feature.feature_type = "circle" =>
                  popup.center = geometry.center

====
